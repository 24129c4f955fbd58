----------------------------- MODULE Archd_proofs -----------------------------
(***************************************************************************)
(* Theorems about Archd, for any number of feeders, clients, descriptors   *)
(* and record buffers, any scripts and any depth of the telemetry queue.   *)
(*                                                                         *)
(* The invariants come in layers: archd runs on the loop of Pcomm          *)
(* (LoopInv); its maps agree with the lists of descriptors and with the    *)
(* sockets (OpenInv); its variables have their types (TypeInv); whoever    *)
(* holds a record has one reference of it, once (HeldInv).  On these rest  *)
(* the bounds of TypeOK (LengthInv), what waits for a peer is watched      *)
(* (PendingInv), everything is archived before archd waits (ArchivedInv,   *)
(* and AloneInv for an archd without telemetry), and the rest of a record  *)
(* sent in part goes out whole (LinkInv, ReadyInv).                        *)
(*                                                                         *)
(* The last third follows a message from the feeder to the archive: what   *)
(* archd has accepted is in order (OrderInv) and older than what is on its *)
(* way (FlightInv); a feeder that waits has one message on its way or one  *)
(* reply (CallbackInv, WaitInv).  With these every step of archd is a step *)
(* of ArchiveService, or none.                                             *)
(***************************************************************************)
EXTENDS Archd, SequenceTheorems, FiniteSetTheorems, TLAPS

\* The theorems about the loop, for the descriptors of archd.
Loop == INSTANCE Pcomm_proofs
            WITH Fd <- AllFds, Used <- {"write", "read"},
                 Listeners <- <<ServerSocket, ClientSocket>>,
                 MaxWatched <- Cardinality(AllFds) + 1

-----------------------------------------------------------------------------
(* archd runs on the loop that Pcomm specifies.                            *)

\* What Pcomm assumes of its parameters holds of archd's.
LEMMA LoopAssumptions ==
    /\ NoFd \notin AllFds
    /\ <<ServerSocket, ClientSocket>> \in Seq(AllFds)
    /\ Cardinality(AllFds) + 1 \in Nat
    /\ {"write", "read"} \subseteq Pcomm!Stream
<1>1. IsFiniteSet(AllFds)
  <2>1. IsFiniteSet({ServerSocket}) /\ IsFiniteSet({ClientSocket})
    BY FS_Singleton
  <2>2. ListenFds = {ServerSocket} \cup {ClientSocket}
    BY DEF ListenFds
  <2>3. IsFiniteSet(ListenFds) /\ IsFiniteSet(Conns)
    BY <2>1, <2>2, FS_Union, FdAssumption
  <2> QED BY <2>3, FS_Union DEF AllFds
<1>2. Cardinality(AllFds) \in Nat
  BY <1>1, FS_CardinalityType
<1> QED BY <1>2, FdAssumption DEF AllFds, ListenFds, Pcomm!Stream

\* The invariant of the loop.
LoopInv ==
    /\ Pcomm!TypeOK
    /\ Pcomm!WriteListedOnce
    /\ Pcomm!WrittenOncePerPass
    /\ running # NoFd => phase \in Pcomm!Stream
    /\ phase = "select" => ~exit_now

LEMMA SameInvariant == LoopInv <=> Loop!PInv
BY DEF LoopInv, Loop!PInv, Pcomm!TypeOK, Loop!TypeOK, Pcomm!WriteListedOnce, Loop!WriteListedOnce,
       Pcomm!WrittenOncePerPass, Loop!WrittenOncePerPass, Loop!RunsInPass, Loop!WaitsUnstopped,
       Pcomm!Stream, Loop!Stream, Pcomm!Phase, Loop!Phase, Pcomm!Ended, Loop!Ended,
       Pcomm!IsInjective, Loop!IsInjective, Pcomm!ToSet, Loop!ToSet

LEMMA SameRemoval == \A s, e : Pcomm!RemoveFirst(s, e) = Loop!RemoveFirst(s, e)
BY DEF Pcomm!RemoveFirst, Loop!RemoveFirst, Pcomm!SelectInSeq, Loop!SelectInSeq,
       Pcomm!RemoveAt, Loop!RemoveAt, Pcomm!Min, Loop!Min

LEMMA SameLoop == Pcomm!Loop => Loop!Loop
<1>1. Pcomm!LoopTop => Loop!LoopTop
  BY DEF Pcomm!LoopTop, Loop!LoopTop, Pcomm!WritesBuffered, Loop!WritesBuffered
<1>2. Pcomm!Populate => Loop!Populate
  BY DEF Pcomm!Populate, Loop!Populate, Pcomm!Stream, Loop!Stream, Pcomm!ToSet, Loop!ToSet,
         Pcomm!NoSets, Loop!NoSets
<1>3. Pcomm!PrepareStopped => Loop!PrepareStopped
  BY DEF Pcomm!PrepareStopped, Loop!PrepareStopped
<1>4. Pcomm!SelectReady => Loop!SelectReady
  BY DEF Pcomm!SelectReady, Loop!SelectReady, Pcomm!Stream, Loop!Stream, Pcomm!NoSets,
         Loop!NoSets, Pcomm!BeginPass, Loop!BeginPass
<1>5. Pcomm!SelectTimeout => Loop!SelectTimeout
  BY DEF Pcomm!SelectTimeout, Loop!SelectTimeout, Pcomm!RoundOver, Loop!RoundOver,
         Pcomm!Stream, Loop!Stream, Pcomm!NoSets, Loop!NoSets
<1>6. Pcomm!SelectFails => Loop!SelectFails
  BY DEF Pcomm!SelectFails, Loop!SelectFails, Pcomm!RoundOver, Loop!RoundOver,
         Pcomm!Stream, Loop!Stream, Pcomm!NoSets, Loop!NoSets
<1>7. Pcomm!StartCallback => Loop!StartCallback
  BY DEF Pcomm!StartCallback, Loop!StartCallback, Pcomm!InPass, Loop!InPass, Pcomm!Due, Loop!Due,
         Pcomm!Min, Loop!Min, Pcomm!ToSet, Loop!ToSet, Pcomm!Stream, Loop!Stream
<1>8. Pcomm!ReadNullSet => Loop!ReadNullSet
  BY DEF Pcomm!ReadNullSet, Loop!ReadNullSet, Pcomm!InPass, Loop!InPass, Pcomm!Stream, Loop!Stream
<1>9. Pcomm!EndPass => Loop!EndPass
  BY DEF Pcomm!EndPass, Loop!EndPass, Pcomm!InPass, Loop!InPass, Pcomm!Due, Loop!Due,
         Pcomm!ToSet, Loop!ToSet, Pcomm!Stream, Loop!Stream, Pcomm!BeginPass, Loop!BeginPass,
         Pcomm!RoundOver, Loop!RoundOver, Pcomm!NoSets, Loop!NoSets
<1> QED BY <1>1, <1>2, <1>3, <1>4, <1>5, <1>6, <1>7, <1>8, <1>9 DEF Pcomm!Loop, Loop!Loop

LEMMA SameCallback == Pcomm!Callback => Loop!Callback
<1>1. \A lists : Pcomm!CallbackLeaves(lists) => Loop!CallbackLeaves(lists)
  BY DEF Pcomm!CallbackLeaves, Loop!CallbackLeaves, Pcomm!InCallback, Loop!InCallback
<1>2. \A s, f : Pcomm!Monitored(fds, s, f) = Loop!Monitored(fds, s, f)
  BY DEF Pcomm!Monitored, Loop!Monitored, Pcomm!Added, Loop!Added, Pcomm!ToSet, Loop!ToSet
<1>3. \A s, f : Pcomm!Unmonitored(fds, s, f) = Loop!Unmonitored(fds, s, f)
  BY SameRemoval DEF Pcomm!Unmonitored, Loop!Unmonitored
<1>4. \A s, f : Pcomm!CallbackMonitors(s, f) => Loop!CallbackMonitors(s, f)
  BY <1>1, <1>2 DEF Pcomm!CallbackMonitors, Loop!CallbackMonitors
<1>5. \A s, f : Pcomm!CallbackRemoves(s, f) => Loop!CallbackRemoves(s, f)
  BY <1>1, <1>3 DEF Pcomm!CallbackRemoves, Loop!CallbackRemoves
<1>6. \A f : Pcomm!CallbackCloses(f) => Loop!CallbackCloses(f)
  BY <1>1, SameRemoval DEF Pcomm!CallbackCloses, Loop!CallbackCloses, Pcomm!Stream, Loop!Stream
<1>7. Pcomm!CallbackRuns => Loop!CallbackRuns
  BY <1>1 DEF Pcomm!CallbackRuns, Loop!CallbackRuns
<1>8. Pcomm!CallbackStops => Loop!CallbackStops
  BY DEF Pcomm!CallbackStops, Loop!CallbackStops, Pcomm!InCallback, Loop!InCallback
<1>9. (Pcomm!Return => Loop!Return) /\ (Pcomm!Continue => Loop!Continue)
  BY DEF Pcomm!Return, Loop!Return, Pcomm!Continue, Loop!Continue
<1> QED BY <1>4, <1>5, <1>6, <1>7, <1>8, <1>9 DEF Pcomm!Callback, Loop!Callback

LEMMA SameEnvironment ==
    /\ Pcomm!Signal => Loop!Signal
    /\ Pcomm!Kill => Loop!Kill
    /\ Pcomm!Start => Loop!Start
<1>1. Pcomm!Signal => Loop!Signal
  BY DEF Pcomm!Signal, Loop!Signal, Pcomm!Ended, Loop!Ended, Pcomm!RoundOver, Loop!RoundOver,
         Pcomm!Stream, Loop!Stream, Pcomm!NoSets, Loop!NoSets
<1>2. Pcomm!Kill => Loop!Kill
  BY DEF Pcomm!Kill, Loop!Kill, Pcomm!Ended, Loop!Ended, Pcomm!RoundOver, Loop!RoundOver,
         Pcomm!Stream, Loop!Stream, Pcomm!NoSets, Loop!NoSets
<1>3. Pcomm!Start => Loop!Start
  BY DEF Pcomm!Start, Loop!Start, Pcomm!Ended, Loop!Ended, Pcomm!InitialLists, Loop!InitialLists,
         Pcomm!Stream, Loop!Stream, Pcomm!NoSets, Loop!NoSets
<1> QED BY <1>1, <1>2, <1>3

LEMMA LoopStepInv == LoopInv /\ [Pcomm!Next]_(Pcomm!pcomm_vars) => LoopInv'
<1> SUFFICES ASSUME LoopInv, [Pcomm!Next]_(Pcomm!pcomm_vars) PROVE LoopInv'
  OBVIOUS
<1>1. Loop!PInv
  BY SameInvariant
<1>2. [Loop!Next]_(Loop!pcomm_vars)
  BY SameLoop, SameCallback, SameEnvironment DEF Pcomm!Next, Loop!Next, Pcomm!pcomm_vars,
     Loop!pcomm_vars
<1>3. Loop!PInv'
  BY <1>1, <1>2, LoopAssumptions, Loop!StepPInv DEF Pcomm!Stream, Loop!Stream
<1> QED BY <1>3, SameInvariant DEF LoopInv, Loop!PInv, Pcomm!TypeOK, Loop!TypeOK,
       Pcomm!WriteListedOnce, Loop!WriteListedOnce,
       Pcomm!WrittenOncePerPass, Loop!WrittenOncePerPass, Loop!RunsInPass, Loop!WaitsUnstopped,
       Pcomm!Stream, Loop!Stream, Pcomm!Phase, Loop!Phase, Pcomm!Ended, Loop!Ended,
       Pcomm!IsInjective, Loop!IsInjective, Pcomm!ToSet, Loop!ToSet

\* The least element of a set of numbers is one of them.
LEMMA LeastIn ==
    ASSUME NEW S, S \subseteq Nat, S # {}
    PROVE  Min(S) \in S
BY LoopAssumptions, Loop!MinInSet DEF Min, Loop!Min, Pcomm!Stream, Loop!Stream

\* accept returns a descriptor that is free.
LEMMA AcceptedIsUnused ==
    ASSUME Unused # {}
    PROVE  Min(Unused) \in Conns /\ sock[Min(Unused)] = None
<1>1. Unused \subseteq Nat
  BY FdAssumption DEF Unused
<1>2. Min(Unused) \in Unused
  BY <1>1, LeastIn
<1> QED BY <1>2 DEF Unused

\* A step of a callback is, for the loop, a run of calls of pcomm's functions.
LEMMA CallbackOfLoop == CallbackStep => Pcomm!Callback
<1> SUFFICES ASSUME CallbackStep PROVE Pcomm!Callback
  OBVIOUS
<1>1. Conns \subseteq AllFds
  BY DEF AllFds
<1> DEFINE Goes == Pcomm!Return \/ Pcomm!Continue
<1>2. ASSUME Pcomm!CallbackRuns, Goes PROVE Pcomm!Callback
  BY <1>2 DEF Pcomm!Callback
<1>3. ASSUME NEW s \in {"write", "read"}, NEW k \in Conns, Pcomm!CallbackMonitors(s, k), Goes
      PROVE  Pcomm!Callback
  BY <1>1, <1>3 DEF Pcomm!Callback
<1>4. ASSUME NEW k \in Conns, Pcomm!CallbackRemoves("write", k), Goes
      PROVE  Pcomm!Callback
  BY <1>1, <1>4 DEF Pcomm!Callback
<1>5. ASSUME NEW k \in Conns, Pcomm!CallbackCloses(k), Goes
      PROVE  Pcomm!Callback
  BY <1>1, <1>5 DEF Pcomm!Callback
<1>6. CASE callback_archive
  BY <1>2, <1>6 DEF callback_archive, ArchiveData, CombineLog, HoldLog, ArchiveDone
<1>7. CASE callback_server_connect
  BY <1>2, <1>3, <1>7, AcceptedIsUnused DEF callback_server_connect
<1>8. CASE callback_client_connect
  BY <1>2, <1>3, <1>8, AcceptedIsUnused DEF callback_client_connect
<1>9. CASE \E k \in Conns : ReceivePiece(k) \/ ReceiveRecord(k) \/ SendReply(k) \/ ReceiveNothing(k)
  BY <1>2, <1>3, <1>9 DEF ReceivePiece, ReceiveRecord, SendReply, ReceiveNothing
<1>10. CASE \E k \in Conns : callback_server_closed(k) \/ callback_server_can_send(k)
  BY <1>2, <1>4, <1>5, <1>10 DEF callback_server_closed, callback_server_can_send
<1>11. CASE \E k \in Conns : add_client_record(k) \/ RetireOldClient(k)
  BY <1>2, <1>3, <1>4, <1>11 DEF add_client_record, RetireOldClient, ClientClosed
<1>12. CASE \E k \in Conns : callback_client_can_send(k) \/ ClientDrained(k)
  BY <1>2, <1>4, <1>12 DEF callback_client_can_send, ClientDrained
<1> QED BY <1>6, <1>7, <1>8, <1>9, <1>10, <1>11, <1>12 DEF CallbackStep

\* Every step of archd and its peers is a step of the loop or leaves it as it is.
LEMMA StepOfLoop == [Next]_vars => [Pcomm!Next]_(Pcomm!pcomm_vars)
<1> SUFFICES ASSUME [Next]_vars PROVE [Pcomm!Next]_(Pcomm!pcomm_vars)
  OBVIOUS
<1>1. ASSUME UNCHANGED pcomm_vars PROVE UNCHANGED Pcomm!pcomm_vars
  BY <1>1 DEF pcomm_vars, Pcomm!pcomm_vars
<1>2. CASE LoopStep
  BY <1>2 DEF LoopStep, Pcomm!Next, Pcomm!Loop
<1>3. CASE SelectReturns
  BY <1>3 DEF SelectReturns, Pcomm!Next, Pcomm!Loop
<1>4. CASE CallbackStep
  BY <1>4, CallbackOfLoop DEF Pcomm!Next
<1>5. CASE Sigterm \/ Killed \/ Restart
  BY <1>5 DEF Sigterm, Killed, Restart, Pcomm!Next
<1>6. CASE PeerStep
  BY <1>1, <1>6 DEF PeerStep, Connect, HangUp, ConnectionLost, SendRecord, GetReply, ClientReads,
                    Elapse
<1>7. CASE UNCHANGED vars
  BY <1>1, <1>7 DEF vars
<1> QED BY <1>2, <1>3, <1>4, <1>5, <1>6, <1>7 DEF Next, ArchdStep

\* archd uses pcomm as pcomm is meant to be used, so what is proved of the loop holds in archd.
THEOREM RunsOnPcomm == Spec => Pcomm!Spec
<1>1. Init => Pcomm!Init
  BY DEF Init
<1> QED BY <1>1, StepOfLoop, PTL DEF Spec, Pcomm!Spec

LEMMA LoopInvariance == Spec => []LoopInv
<1>1. Init => LoopInv
  <2> SUFFICES ASSUME Init PROVE LoopInv
    OBVIOUS
  <2>1. Loop!Init
    BY DEF Init, Pcomm!Init, Loop!Init, Pcomm!InitialLists, Loop!InitialLists, Pcomm!Stream,
           Loop!Stream, Pcomm!NoSets, Loop!NoSets
  <2>2. Loop!PInv
    BY <2>1, LoopAssumptions, Loop!InitPInv DEF Pcomm!Stream, Loop!Stream
  <2> QED BY <2>2, SameInvariant
<1>2. LoopInv /\ [Next]_vars => LoopInv'
  BY LoopStepInv, StepOfLoop
<1> QED BY <1>1, <1>2, PTL DEF Spec

-----------------------------------------------------------------------------
(* Lists, and what pcomm's functions do to the lists of descriptors.       *)

LEMMA SameListOperators ==
    \A s : /\ Pcomm!ToSet(s) = ToSet(s) /\ Loop!ToSet(s) = ToSet(s)
           /\ Pcomm!IsInjective(s) = IsInjective(s) /\ Loop!IsInjective(s) = IsInjective(s)
BY DEF Pcomm!ToSet, Loop!ToSet, ToSet, Pcomm!IsInjective, Loop!IsInjective, IsInjective

LEMMA AppendedList ==
    ASSUME NEW S, NEW s \in Seq(S), NEW e \in S
    PROVE  /\ Append(s, e) \in Seq(S)
           /\ ToSet(Append(s, e)) = ToSet(s) \cup {e}
           /\ IsInjective(s) /\ e \notin ToSet(s) => IsInjective(Append(s, e))
BY SameListOperators, LoopAssumptions, Loop!AppendDistinct DEF Pcomm!Stream, Loop!Stream

LEMMA RemovedList ==
    ASSUME NEW S, NEW s \in Seq(S), NEW e
    PROVE  IsInjective(s) => /\ IsInjective(Pcomm!RemoveFirst(s, e))
                             /\ ToSet(Pcomm!RemoveFirst(s, e)) = ToSet(s) \ {e}
BY SameListOperators, SameRemoval, LoopAssumptions, Loop!RemoveFirstDistinct
   DEF Pcomm!Stream, Loop!Stream

LEMMA ListTypes ==
    ASSUME LoopInv
    PROVE  /\ DOMAIN fds = {"error", "write", "read"}
           /\ fds["read"] \in Seq(AllFds) /\ fds["write"] \in Seq(AllFds)
           /\ IsInjective(fds["write"])
BY SameListOperators DEF LoopInv, Pcomm!TypeOK, Pcomm!Stream, Pcomm!WriteListedOnce

\* pcomm_monitor_write_fd.
LEMMA MonitorsWrite ==
    ASSUME LoopInv, NEW k \in AllFds, Pcomm!CallbackMonitors("write", k)
    PROVE  /\ fds'["read"] = fds["read"]
           /\ ToSet(fds'["write"]) = ToSet(fds["write"]) \cup (IF exit_request THEN {} ELSE {k})
<1>1. fds' = IF exit_request THEN fds
             ELSE IF k \in ToSet(fds["write"]) THEN fds
             ELSE [fds EXCEPT !["write"] = Append(@, k)]
  BY SameListOperators DEF Pcomm!CallbackMonitors, Pcomm!CallbackLeaves, Pcomm!Monitored, Pcomm!Added
<1>2. CASE exit_request \/ k \in ToSet(fds["write"])
  BY <1>1, <1>2
<1>3. CASE ~(exit_request \/ k \in ToSet(fds["write"]))
  <2>1. fds'["write"] = Append(fds["write"], k) /\ fds'["read"] = fds["read"]
    BY <1>1, <1>3, ListTypes
  <2> QED BY <1>3, <2>1, AppendedList, ListTypes
<1> QED BY <1>2, <1>3

\* pcomm_monitor_read_fd of a new descriptor.
LEMMA MonitorsRead ==
    ASSUME LoopInv, NEW k \in AllFds, Pcomm!CallbackMonitors("read", k), ~exit_request,
           IsInjective(fds["read"]), k \notin ToSet(fds["read"])
    PROVE  /\ fds'["write"] = fds["write"]
           /\ ToSet(fds'["read"]) = ToSet(fds["read"]) \cup {k}
           /\ IsInjective(fds'["read"])
<1>1. fds' = [fds EXCEPT !["read"] = Append(@, k)]
  BY DEF Pcomm!CallbackMonitors, Pcomm!CallbackLeaves, Pcomm!Monitored, Pcomm!Added
<1>2. fds'["read"] = Append(fds["read"], k) /\ fds'["write"] = fds["write"]
  BY <1>1, ListTypes
<1> QED BY <1>2, AppendedList, ListTypes

\* pcomm_remove_write_fd.
LEMMA RemovesWrite ==
    ASSUME LoopInv, NEW k, Pcomm!CallbackRemoves("write", k)
    PROVE  /\ fds'["read"] = fds["read"]
           /\ ToSet(fds'["write"]) = ToSet(fds["write"]) \ {k}
<1>1. fds' = [fds EXCEPT !["write"] = Pcomm!RemoveFirst(@, k)]
  BY DEF Pcomm!CallbackRemoves, Pcomm!CallbackLeaves, Pcomm!Unmonitored
<1>2. fds'["write"] = Pcomm!RemoveFirst(fds["write"], k) /\ fds'["read"] = fds["read"]
  BY <1>1, ListTypes
<1> QED BY <1>2, RemovedList, ListTypes

\* A descriptor is taken off every list before it is closed.
LEMMA RemovesAll ==
    ASSUME LoopInv, NEW k, Pcomm!CallbackCloses(k), IsInjective(fds["read"])
    PROVE  /\ ToSet(fds'["write"]) = ToSet(fds["write"]) \ {k}
           /\ ToSet(fds'["read"]) = ToSet(fds["read"]) \ {k}
           /\ IsInjective(fds'["read"])
<1>1. fds' = [s \in {"error", "write", "read"} |-> Pcomm!RemoveFirst(fds[s], k)]
  BY DEF Pcomm!CallbackCloses, Pcomm!CallbackLeaves, Pcomm!Stream
<1>2. /\ fds'["write"] = Pcomm!RemoveFirst(fds["write"], k)
      /\ fds'["read"] = Pcomm!RemoveFirst(fds["read"], k)
  BY <1>1
<1> QED BY <1>2, RemovedList, ListTypes

-----------------------------------------------------------------------------
(* Descriptors: archd's maps, the lists and the sockets agree.             *)

OpenInv ==
    /\ sock \in [Conns -> Peer \cup {None}]
    /\ server_map \in SUBSET Conns /\ client_map \in SUBSET Conns /\ fan \subseteq client_map
    /\ ToSet(fds["read"]) = ListenFds \cup server_map
    /\ IsInjective(fds["read"])
    /\ ToSet(fds["write"]) \subseteq server_map \cup client_map
    /\ \A k \in server_map : sock[k] \in Feeder
    /\ \A k \in client_map : sock[k] \in Client

\* A descriptor that accept returns is in no map and on no list.
LEMMA AcceptedIsNew ==
    ASSUME OpenInv, Unused # {}, NEW k, k = Min(Unused)
    PROVE  /\ k \in Conns /\ k \in AllFds /\ k \notin server_map /\ k \notin client_map
           /\ k \notin ToSet(fds["read"])
<1>1. k \in Conns /\ sock[k] = None
  BY AcceptedIsUnused
<1>2. k \notin server_map /\ k \notin client_map
  BY <1>1, PeerAssumption DEF OpenInv, Peer
<1> QED BY <1>1, <1>2, FdAssumption DEF OpenInv, AllFds, ListenFds

\* callback_client_closed leaves no trace of the client's descriptor.
LEMMA ClientClosedOpen ==
    ASSUME LoopInv, OpenInv, NEW k \in client_map, NEW rc, NEW queue, ClientClosed(k, rc, queue),
           fan' = fan \ {k}, server_map' = server_map
    PROVE  OpenInv'
<1>1. /\ fds'["read"] = fds["read"]
      /\ ToSet(fds'["write"]) = ToSet(fds["write"]) \ {k}
  BY RemovesWrite DEF ClientClosed
<1>2. sock' = [sock EXCEPT ![k] = None] /\ client_map' = client_map \ {k}
  BY DEF ClientClosed, Closed
<1>3. k \notin server_map
  BY PeerAssumption DEF OpenInv
<1> QED BY <1>1, <1>2, <1>3 DEF OpenInv

LEMMA ServerConnectOpen == LoopInv /\ OpenInv /\ callback_server_connect => OpenInv'
<1> SUFFICES ASSUME LoopInv, OpenInv, callback_server_connect PROVE OpenInv'
  OBVIOUS
<1>1. client_map' = client_map /\ fan' = fan
  BY DEF callback_server_connect, locals
<1>2. CASE Cardinality(server_map) >= MaxServers \/ Unused = {}
  BY <1>1, <1>2 DEF callback_server_connect, net, Pcomm!CallbackRuns, Pcomm!CallbackLeaves, OpenInv
<1>3. CASE ~(Cardinality(server_map) >= MaxServers \/ Unused = {})
  <2>1. PICK p \in Feeder :
              /\ sock' = [sock EXCEPT ![Min(Unused)] = p]
              /\ IF exit_request
                 THEN Pcomm!CallbackRuns /\ server_map' = server_map
                 ELSE /\ Pcomm!CallbackMonitors("read", Min(Unused))
                      /\ server_map' = server_map \cup {Min(Unused)}
    BY <1>3 DEF callback_server_connect
  <2>2. PICK k : k = Min(Unused)
    OBVIOUS
  <2>3. /\ k \in Conns /\ k \in AllFds /\ k \notin server_map /\ k \notin client_map
        /\ k \notin ToSet(fds["read"])
    BY <1>3, <2>2, AcceptedIsNew
  <2>4. p \in Peer
    BY DEF Peer
  <2>5. CASE exit_request
    BY <1>1, <2>1, <2>2, <2>3, <2>4, <2>5 DEF Pcomm!CallbackRuns, Pcomm!CallbackLeaves, OpenInv
  <2>6. CASE ~exit_request
    <3>1. /\ fds'["write"] = fds["write"]
          /\ ToSet(fds'["read"]) = ToSet(fds["read"]) \cup {k}
          /\ IsInjective(fds'["read"])
      BY <2>1, <2>2, <2>3, <2>6, MonitorsRead DEF OpenInv
    <3> QED BY <1>1, <2>1, <2>2, <2>3, <2>4, <2>6, <3>1 DEF OpenInv
  <2> QED BY <2>5, <2>6
<1> QED BY <1>2, <1>3

LEMMA ClientConnectOpen == LoopInv /\ OpenInv /\ callback_client_connect => OpenInv'
<1> SUFFICES ASSUME LoopInv, OpenInv, callback_client_connect PROVE OpenInv'
  OBVIOUS
<1>1. server_map' = server_map /\ fan' = fan
  BY DEF callback_client_connect, locals
<1>2. CASE Cardinality(client_map) >= MaxClients \/ Unused = {}
  BY <1>1, <1>2 DEF callback_client_connect, net, Pcomm!CallbackRuns, Pcomm!CallbackLeaves, OpenInv
<1>3. CASE ~(Cardinality(client_map) >= MaxClients \/ Unused = {})
  <2>1. PICK p \in Client :
              /\ sock' = [sock EXCEPT ![Min(Unused)] = p]
              /\ IF exit_request
                 THEN Pcomm!CallbackRuns /\ client_map' = client_map
                 ELSE /\ Pcomm!CallbackMonitors("write", Min(Unused))
                      /\ client_map' = client_map \cup {Min(Unused)}
    BY <1>3 DEF callback_client_connect
  <2>2. PICK k : k = Min(Unused)
    OBVIOUS
  <2>3. k \in Conns /\ k \in AllFds /\ k \notin server_map /\ k \notin client_map
    BY <1>3, <2>2, AcceptedIsNew
  <2>4. p \in Peer
    BY DEF Peer
  <2>5. CASE exit_request
    BY <1>1, <2>1, <2>2, <2>3, <2>4, <2>5 DEF Pcomm!CallbackRuns, Pcomm!CallbackLeaves, OpenInv
  <2>6. CASE ~exit_request
    <3>1. /\ fds'["read"] = fds["read"]
          /\ ToSet(fds'["write"]) = ToSet(fds["write"]) \cup {k}
      BY <2>1, <2>2, <2>3, <2>6, MonitorsWrite
    <3> QED BY <1>1, <2>1, <2>2, <2>3, <2>4, <2>6, <3>1 DEF OpenInv
  <2> QED BY <2>5, <2>6
<1> QED BY <1>2, <1>3

LEMMA Listeners ==
    /\ ToSet(<<ServerSocket, ClientSocket>>) = ListenFds
    /\ IsInjective(<<ServerSocket, ClientSocket>>)
    /\ ToSet(<<>>) = {}
<1> DEFINE l == <<ServerSocket, ClientSocket>>
<1>1. DOMAIN l = {1, 2} /\ l[1] = ServerSocket /\ l[2] = ClientSocket
  OBVIOUS
<1> HIDE DEF l
<1>2. ToSet(l) = ListenFds /\ IsInjective(l)
  BY <1>1, FdAssumption DEF ToSet, IsInjective, ListenFds
<1>3. ToSet(<<>>) = {}
  BY DEF ToSet
<1> QED BY <1>2, <1>3 DEF l

LEMMA InitialOpen == Init => OpenInv
<1> SUFFICES ASSUME Init PROVE OpenInv
  OBVIOUS
<1>1. fds["read"] = <<ServerSocket, ClientSocket>> /\ fds["write"] = <<>>
  BY DEF Init, Pcomm!Init, Pcomm!InitialLists, Pcomm!Stream
<1>2. sock = [k \in Conns |-> None] /\ server_map = {} /\ client_map = {} /\ fan = {}
  BY DEF Init
<1> QED BY <1>1, <1>2, Listeners DEF OpenInv

LEMMA RestartOpen == Restart => OpenInv'
<1> SUFFICES ASSUME Restart PROVE OpenInv'
  OBVIOUS
<1>1. fds'["read"] = <<ServerSocket, ClientSocket>> /\ fds'["write"] = <<>>
  BY DEF Restart, Pcomm!Start, Pcomm!InitialLists, Pcomm!Stream
<1>2. sock' = [k \in Conns |-> None] /\ server_map' = {} /\ client_map' = {} /\ fan' = {}
  BY DEF Restart
<1> QED BY <1>1, <1>2, Listeners DEF OpenInv

\* Steps that leave the lists, the maps and the descriptors alone.
LEMMA SameOpen ==
    ASSUME OpenInv, UNCHANGED <<fds, sock, server_map, client_map>>, fan' \subseteq client_map
    PROVE  OpenInv'
BY DEF OpenInv

\* A step of a feeder's or a client's callback that may ask for write callbacks.
LEMMA MonitorsWriteOpen ==
    ASSUME LoopInv, OpenInv, NEW k \in server_map \cup client_map,
           Pcomm!CallbackMonitors("write", k),
           UNCHANGED <<sock, server_map, client_map>>, fan' \subseteq fan
    PROVE  OpenInv'
<1>1. k \in AllFds
  BY DEF OpenInv, AllFds
<1>2. /\ fds'["read"] = fds["read"]
      /\ ToSet(fds'["write"]) \subseteq ToSet(fds["write"]) \cup {k}
  BY <1>1, MonitorsWrite
<1> QED BY <1>2 DEF OpenInv

LEMMA RemovesWriteOpen ==
    ASSUME LoopInv, OpenInv, NEW k, Pcomm!CallbackRemoves("write", k),
           UNCHANGED <<sock, server_map, client_map, fan>>
    PROVE  OpenInv'
<1>1. /\ fds'["read"] = fds["read"]
      /\ ToSet(fds'["write"]) = ToSet(fds["write"]) \ {k}
  BY RemovesWrite
<1> QED BY <1>1 DEF OpenInv

LEMMA ServerClosedOpen ==
    ASSUME LoopInv, OpenInv, NEW k, callback_server_closed(k) PROVE OpenInv'
<1>1. /\ k \in server_map /\ Pcomm!CallbackCloses(k)
      /\ sock' = [sock EXCEPT ![k] = None] /\ server_map' = server_map \ {k}
      /\ UNCHANGED <<client_map, fan>>
  BY DEF callback_server_closed, Receiving, Closed
<1>2. /\ ToSet(fds'["write"]) = ToSet(fds["write"]) \ {k}
      /\ ToSet(fds'["read"]) = ToSet(fds["read"]) \ {k}
      /\ IsInjective(fds'["read"])
  BY <1>1, RemovesAll DEF OpenInv
<1>3. k \notin client_map /\ k \notin ListenFds
  BY <1>1, PeerAssumption, FdAssumption DEF OpenInv, ListenFds
<1> QED BY <1>1, <1>2, <1>3 DEF OpenInv

LEMMA CallbackOpen ==
    ASSUME LoopInv, OpenInv, CallbackStep PROVE OpenInv'
<1>1. ASSUME Pcomm!CallbackRuns PROVE fds' = fds
  BY <1>1 DEF Pcomm!CallbackRuns, Pcomm!CallbackLeaves
<1>2. fan \subseteq client_map
  BY DEF OpenInv
<1>3. CASE callback_archive
  BY <1>1, <1>2, <1>3, SameOpen
     DEF callback_archive, ArchiveData, CombineLog, HoldLog, ArchiveDone, net, contexts, locals
<1>4. CASE callback_server_connect \/ callback_client_connect
  BY <1>4, ServerConnectOpen, ClientConnectOpen
<1>5. ASSUME NEW k \in Conns, ReceivePiece(k) \/ ReceiveNothing(k) PROVE OpenInv'
  <2>1. UNCHANGED <<sock, server_map, client_map, fan>> /\ k \in server_map
    BY <1>5 DEF ReceivePiece, ReceiveNothing, Receiving, net, contexts
  <2>2. Pcomm!CallbackMonitors("write", k) \/ Pcomm!CallbackRuns
    BY <1>5 DEF ReceivePiece, ReceiveNothing
  <2> QED BY <1>1, <1>2, <2>1, <2>2, SameOpen, MonitorsWriteOpen
<1>6. ASSUME NEW k \in Conns, ReceiveRecord(k) \/ SendReply(k) PROVE OpenInv'
  <2>1. UNCHANGED <<fds, sock, server_map, client_map>>
    BY <1>1, <1>6 DEF ReceiveRecord, SendReply
  <2>2. fan' \in {{}, client_map, fan}
    BY <1>6 DEF ReceiveRecord, SendReply
  <2> QED BY <1>2, <2>1, <2>2, SameOpen
<1>7. ASSUME NEW k \in Conns, callback_server_can_send(k) PROVE OpenInv'
  <2>1. UNCHANGED <<sock, server_map, client_map, fan>>
    BY <1>7 DEF callback_server_can_send, locals
  <2>2. Pcomm!CallbackRemoves("write", k) \/ Pcomm!CallbackRuns
    BY <1>7 DEF callback_server_can_send
  <2> QED BY <1>1, <1>2, <2>1, <2>2, SameOpen, RemovesWriteOpen
<1>8. ASSUME NEW k \in Conns, add_client_record(k) PROVE OpenInv'
  <2>1. k \in fan /\ k \in client_map /\ fan' = fan \ {k} /\ server_map' = server_map
    BY <1>2, <1>8 DEF add_client_record
  <2> DEFINE queue == Put(client[k].queue, Depth, Last(record_queue.items))
             rc == RefsAfterPut(refs, client[k].queue, Depth, Last(record_queue.items))
  <2>2. CASE ClientClosed(k, rc, queue)
    BY <2>1, <2>2, ClientClosedOpen
  <2>3. CASE Pcomm!CallbackMonitors("write", k) /\ UNCHANGED <<sock, client_map>>
    BY <2>1, <2>3, MonitorsWriteOpen
  <2> QED BY <1>8, <2>2, <2>3 DEF add_client_record
<1>9. ASSUME NEW k \in Conns, RetireOldClient(k) PROVE OpenInv'
  <2>1. k \in fan /\ k \in client_map /\ fan' = fan \ {k} /\ server_map' = server_map
    BY <1>2, <1>9 DEF RetireOldClient
  <2>2. CASE ClientClosed(k, refs, client[k].queue)
    BY <2>1, <2>2, ClientClosedOpen
  <2>3. CASE Pcomm!CallbackRuns /\ UNCHANGED <<sock, client_map>>
    BY <1>1, <1>2, <2>1, <2>3, SameOpen
  <2> QED BY <1>9, <2>2, <2>3 DEF RetireOldClient
<1>10. ASSUME NEW k \in Conns, callback_client_can_send(k) PROVE OpenInv'
  BY <1>1, <1>2, <1>10, SameOpen DEF callback_client_can_send, locals
<1>11. ASSUME NEW k \in Conns, ClientDrained(k) PROVE OpenInv'
  BY <1>11, RemovesWriteOpen DEF ClientDrained, net, contexts, locals
<1> QED BY <1>3, <1>4, <1>5, <1>6, <1>7, <1>8, <1>9, <1>10, <1>11, ServerClosedOpen
        DEF CallbackStep

\* What the steps of the loop, of signals and of the peers leave alone.
LEMMA LoopLeaves ==
    ASSUME LoopStep \/ SelectReturns \/ Sigterm \/ Killed
    PROVE  UNCHANGED <<fds, net, contexts, records, feeders, okay, reply>>
<1>1. CASE LoopStep
  BY <1>1 DEF LoopStep, outside_pcomm, locals, Pcomm!LoopTop, Pcomm!Populate, Pcomm!StartCallback,
              Pcomm!ReadNullSet, Pcomm!EndPass
<1>2. CASE SelectReturns
  BY <1>2 DEF SelectReturns, outside_pcomm, locals, Pcomm!SelectReady, Pcomm!SelectTimeout
<1>3. CASE Sigterm \/ Killed
  BY <1>3 DEF Sigterm, Killed, locals, Pcomm!Signal, Pcomm!Kill
<1> QED BY <1>1, <1>2, <1>3

LEMMA PeersLeave ==
    ASSUME PeerStep
    PROVE  UNCHANGED <<pcomm_vars, sock, server_map, server, client_map, records, locals>>
<1>1. CASE \E k \in Conns : Elapse(k)
  BY <1>1 DEF Elapse, net
<1>2. CASE \E p \in Peer : Connect(p) \/ HangUp(p) \/ ConnectionLost(p)
  BY <1>2 DEF Connect, HangUp, ConnectionLost, contexts
<1>3. CASE \E f \in Feeder : SendRecord(f) \/ GetReply(f)
  BY <1>3 DEF SendRecord, GetReply, contexts
<1>4. CASE \E c \in Client : ClientReads(c)
  BY <1>4 DEF ClientReads, contexts
<1> QED BY <1>1, <1>2, <1>3, <1>4 DEF PeerStep

LEMMA OpenStep == LoopInv /\ OpenInv /\ [Next]_vars => OpenInv'
<1> SUFFICES ASSUME LoopInv, OpenInv, [Next]_vars PROVE OpenInv'
  OBVIOUS
<1>1. fan \subseteq client_map
  BY DEF OpenInv
<1>2. CASE LoopStep \/ SelectReturns \/ Sigterm \/ Killed
  <2>1. UNCHANGED <<fds, sock, server_map, client_map>>
    BY <1>2, LoopLeaves DEF net, contexts
  <2>2. fan' \in {fan, client_map}
    BY <1>2 DEF LoopStep, SelectReturns, Sigterm, Killed, locals
  <2> QED BY <1>1, <2>1, <2>2, SameOpen
<1>3. CASE PeerStep
  BY <1>1, <1>3, PeersLeave, SameOpen DEF pcomm_vars, locals
<1>4. CASE UNCHANGED vars
  BY <1>1, <1>4, SameOpen DEF vars, pcomm_vars, net, contexts, locals
<1> QED BY <1>2, <1>3, <1>4, CallbackOpen, RestartOpen DEF Next, ArchdStep

LEMMA OpenInvariance == Spec => []OpenInv
BY InitialOpen, OpenStep, LoopInvariance, PTL DEF Spec

\* Whatever connects, closes, expires or is retired, and in whatever order, the descriptors
\* pcomm watches for reading are the listeners and the feeders of server_map, each once, and
\* those it watches for room belong to server_map or client_map; no descriptor is in both,
\* and the socket behind each is that of a feeder or of a client.
THEOREM MonitoredDescriptorsAreOpen == Spec => []MonitoredAreOpen
<1>1. OpenInv => MonitoredAreOpen
  <2> SUFFICES ASSUME OpenInv PROVE MonitoredAreOpen
    OBVIOUS
  <2>1. server_map \cap client_map = {}
    BY PeerAssumption DEF OpenInv
  <2> QED BY <2>1 DEF OpenInv, MonitoredAreOpen
<1> QED BY <1>1, OpenInvariance, PTL

-----------------------------------------------------------------------------
(* Queues.                                                                 *)

\* A queue whose counter is in step with its tree.
QueueOf(S) == {q \in [items : Seq(S), size : Nat] : q.size = Len(q.items)}

LEMMA SetOfList ==
    ASSUME NEW S, NEW s \in Seq(S)
    PROVE  /\ \A x : x \in ToSet(s) <=> \E i \in 1..Len(s) : x = s[i]
           /\ IsInjective(s) <=> \A i, j \in 1..Len(s) : s[i] = s[j] => i = j
           /\ ToSet(s) \subseteq S
           /\ s = <<>> <=> ToSet(s) = {}
           /\ s = <<>> <=> Len(s) = 0
           /\ Len(s) \in Nat
<1>1. DOMAIN s = 1..Len(s) /\ Len(s) \in Nat /\ \A i \in 1..Len(s) : s[i] \in S
  BY LenProperties, ElementOfSeq
<1>2. s = <<>> <=> Len(s) = 0
  BY EmptySeq
<1>3. \A x : x \in ToSet(s) <=> \E i \in 1..Len(s) : x = s[i]
  BY <1>1 DEF ToSet
<1>4. IsInjective(s) <=> \A i, j \in 1..Len(s) : s[i] = s[j] => i = j
  BY <1>1 DEF IsInjective
<1>5. Len(s) = 0 <=> ToSet(s) = {}
  <2>1. ASSUME Len(s) = 0 PROVE ToSet(s) = {}
    BY <1>3, <2>1
  <2>2. ASSUME Len(s) # 0 PROVE ToSet(s) # {}
    <3>1. 1 \in 1..Len(s)
      BY <1>1, <2>2
    <3>2. s[1] \in ToSet(s)
      BY <1>3, <3>1
    <3> QED BY <3>2
  <2> QED BY <2>1, <2>2
<1> QED BY <1>1, <1>2, <1>3, <1>4, <1>5

\* A list without its last element.
LEMMA FrontFacts ==
    ASSUME NEW S, NEW s \in Seq(S), s # <<>>
    PROVE  /\ SubSeq(s, 1, Len(s) - 1) \in Seq(S)
           /\ Len(SubSeq(s, 1, Len(s) - 1)) = Len(s) - 1
           /\ s[Len(s)] \in ToSet(s)
           /\ ToSet(SubSeq(s, 1, Len(s) - 1)) \subseteq ToSet(s)
           /\ IsInjective(s) => /\ IsInjective(SubSeq(s, 1, Len(s) - 1))
                                /\ ToSet(SubSeq(s, 1, Len(s) - 1)) = ToSet(s) \ {s[Len(s)]}
<1> DEFINE r == SubSeq(s, 1, Len(s) - 1)
<1>1. Len(s) \in Nat /\ Len(s) >= 1 /\ \A i \in 1..Len(s) : s[i] \in S
  BY SetOfList, ElementOfSeq
<1>2. r \in Seq(S) /\ Len(r) = Len(s) - 1 /\ \A i \in 1..(Len(s) - 1) : r[i] = s[i]
  <2>1. \A i \in 1..(Len(s) - 1) : s[i] \in S
    BY <1>1
  <2>2. r \in Seq(S) /\ Len(r) = (IF 1 <= Len(s) - 1 THEN Len(s) - 1 - 1 + 1 ELSE 0)
        /\ \A i \in 1..(Len(s) - 1 - 1 + 1) : r[i] = s[1 + i - 1]
    BY <1>1, <2>1, SubSeqProperties
  <2> HIDE DEF r
  <2>3. PICK n : n = Len(s)
    OBVIOUS
  <2>4. n \in Nat /\ n >= 1
    BY <1>1, <2>3
  <2>5. /\ n - 1 - 1 + 1 = n - 1
        /\ (IF 1 <= n - 1 THEN n - 1 - 1 + 1 ELSE 0) = n - 1
        /\ \A i \in 1..(n - 1) : 1 + i - 1 = i
    BY <2>4
  <2> QED BY <2>2, <2>3, <2>5
<1> HIDE DEF r
<1>3. /\ \A i \in 1..Len(r) : i \in 1..Len(s) /\ r[i] = s[i] /\ i # Len(s)
      /\ \A i \in 1..Len(s) : i = Len(s) \/ i \in 1..Len(r)
      /\ Len(s) \in 1..Len(s)
  BY <1>1, <1>2
<1>4. \A x : x \in ToSet(r) <=> \E i \in 1..Len(r) : x = r[i]
  BY <1>2, SetOfList
<1>5. IsInjective(r) <=> \A i, j \in 1..Len(r) : r[i] = r[j] => i = j
  BY <1>2, SetOfList
<1>6. \A x : x \in ToSet(s) <=> \E i \in 1..Len(s) : x = s[i]
  BY SetOfList
<1>7. IsInjective(s) <=> \A i, j \in 1..Len(s) : s[i] = s[j] => i = j
  BY SetOfList
<1>8. s[Len(s)] \in ToSet(s) /\ ToSet(r) \subseteq ToSet(s)
  BY <1>3, <1>4, <1>6
<1>9. ASSUME IsInjective(s) PROVE IsInjective(r) /\ ToSet(r) = ToSet(s) \ {s[Len(s)]}
  <2>1. IsInjective(r)
    BY <1>3, <1>5, <1>7, <1>9
  <2>2. ASSUME NEW x \in ToSet(r) PROVE x # s[Len(s)]
    BY <1>3, <1>4, <1>7, <1>9
  <2>3. ASSUME NEW x \in ToSet(s), x # s[Len(s)] PROVE x \in ToSet(r)
    BY <2>3, <1>3, <1>4, <1>6
  <2> QED BY <2>1, <2>2, <2>3, <1>8
<1> QED BY <1>2, <1>8, <1>9 DEF r

\* A list without its first element.
LEMMA TailFacts ==
    ASSUME NEW S, NEW s \in Seq(S), s # <<>>
    PROVE  /\ Tail(s) \in Seq(S)
           /\ Len(Tail(s)) = Len(s) - 1
           /\ Head(s) \in ToSet(s) /\ Head(s) \in S
           /\ ToSet(Tail(s)) \subseteq ToSet(s)
           /\ IsInjective(s) => /\ IsInjective(Tail(s))
                                /\ ToSet(Tail(s)) = ToSet(s) \ {Head(s)}
<1> DEFINE r == Tail(s)
<1>1. Len(s) \in Nat /\ Len(s) >= 1 /\ \A i \in 1..Len(s) : s[i] \in S
  BY SetOfList, ElementOfSeq
<1>2. /\ r \in Seq(S) /\ Len(r) = Len(s) - 1 /\ \A i \in 1..Len(r) : r[i] = s[i + 1]
      /\ Head(s) = s[1]
  BY HeadTailProperties
<1> HIDE DEF r
<1>3. /\ \A i \in 1..Len(r) : i + 1 \in 1..Len(s) /\ r[i] = s[i + 1] /\ i + 1 # 1
      /\ \A i \in 1..Len(s) : i = 1 \/ (i - 1 \in 1..Len(r) /\ r[i - 1] = s[i])
      /\ 1 \in 1..Len(s)
      /\ \A i, j \in 1..Len(r) : i + 1 = j + 1 => i = j
  BY <1>1, <1>2
<1>4. \A x : x \in ToSet(r) <=> \E i \in 1..Len(r) : x = r[i]
  BY <1>2, SetOfList
<1>5. IsInjective(r) <=> \A i, j \in 1..Len(r) : r[i] = r[j] => i = j
  BY <1>2, SetOfList
<1>6. \A x : x \in ToSet(s) <=> \E i \in 1..Len(s) : x = s[i]
  BY SetOfList
<1>7. IsInjective(s) <=> \A i, j \in 1..Len(s) : s[i] = s[j] => i = j
  BY SetOfList
<1>8. s[1] \in ToSet(s) /\ ToSet(r) \subseteq ToSet(s) /\ s[1] \in S
  BY <1>1, <1>3, <1>4, <1>6
<1>9. ASSUME IsInjective(s) PROVE IsInjective(r) /\ ToSet(r) = ToSet(s) \ {s[1]}
  <2>1. IsInjective(r)
    BY <1>3, <1>5, <1>7, <1>9
  <2>2. ASSUME NEW x \in ToSet(r) PROVE x # s[1]
    BY <1>3, <1>4, <1>7, <1>9
  <2>3. ASSUME NEW x \in ToSet(s), x # s[1] PROVE x \in ToSet(r)
    BY <2>3, <1>3, <1>4, <1>6
  <2> QED BY <2>1, <2>2, <2>3, <1>8
<1> QED BY <1>2, <1>8, <1>9 DEF r

\* The eviction at the start of prioqueue_add takes one element of a full queue.
LEMMA RoomFacts ==
    ASSUME NEW S, NEW q \in QueueOf(S), NEW cap \in Nat \cup {-1}
    PROVE  /\ MadeRoom(q, cap) \in QueueOf(S)
           /\ cap > 0 /\ q.size <= cap => MadeRoom(q, cap).size < cap
           /\ Evicted(q, cap) \subseteq ToSet(q.items)
           /\ IsInjective(q.items) =>
                /\ IsInjective(MadeRoom(q, cap).items)
                /\ ToSet(MadeRoom(q, cap).items) = ToSet(q.items) \ Evicted(q, cap)
<1>1. q.items \in Seq(S) /\ q.size \in Nat /\ q.size = Len(q.items)
  BY DEF QueueOf
<1>2. CASE MustEvict(q, cap)
  <2>1. q.items # <<>> /\ q.size >= 1 /\ cap > 0 /\ q.size >= cap
    BY <1>1, <1>2, SetOfList DEF MustEvict
  <2>2. MadeRoom(q, cap) = [items |-> SubSeq(q.items, 1, Len(q.items) - 1), size |-> q.size - 1]
    BY <1>2 DEF MadeRoom, EvictNewest
  <2>3. Evicted(q, cap) = {q.items[Len(q.items)]}
    BY <1>2 DEF Evicted
  <2> DEFINE r == SubSeq(q.items, 1, Len(q.items) - 1)
  <2>4. /\ r \in Seq(S) /\ Len(r) = Len(q.items) - 1
        /\ q.items[Len(q.items)] \in ToSet(q.items)
        /\ IsInjective(q.items) => /\ IsInjective(r)
                                   /\ ToSet(r) = ToSet(q.items) \ {q.items[Len(q.items)]}
    BY <1>1, <2>1, FrontFacts
  <2> HIDE DEF r
  <2>5. MadeRoom(q, cap).items = r /\ MadeRoom(q, cap).size = q.size - 1
    BY <2>2 DEF r
  <2>6. q.size - 1 \in Nat /\ q.size - 1 = Len(r)
    BY <1>1, <2>1, <2>4
  <2>7. MadeRoom(q, cap) \in QueueOf(S)
    BY <2>2, <2>4, <2>6 DEF QueueOf, r
  <2>8. q.size <= cap => q.size - 1 < cap
    BY <1>1, <2>1
  <2> QED BY <2>3, <2>4, <2>5, <2>7, <2>8
<1>3. CASE ~MustEvict(q, cap)
  <2>1. MadeRoom(q, cap) = q /\ Evicted(q, cap) = {}
    BY <1>3 DEF MadeRoom, Evicted
  <2>2. cap > 0 => q.size < cap
    BY <1>1, <1>3 DEF MustEvict
  <2> QED BY <2>1, <2>2
<1> QED BY <1>2, <1>3

\* prioqueue_add.
LEMMA PutFacts ==
    ASSUME NEW S, NEW q \in QueueOf(S), NEW cap \in Nat \cup {-1}, NEW x \in S
    PROVE  /\ Put(q, cap, x) \in QueueOf(S)
           /\ cap # -1 /\ q.size <= cap => Put(q, cap, x).size <= cap
           /\ cap # 0 /\ IsInjective(q.items) =>
                /\ ToSet(Put(q, cap, x).items) = (ToSet(q.items) \ Evicted(q, cap)) \cup {x}
                /\ x \notin ToSet(q.items) => IsInjective(Put(q, cap, x).items)
<1>1. CASE cap = 0
  BY <1>1 DEF Put
<1>2. CASE cap # 0
  <2>1. PICK r : r = MadeRoom(q, cap)
    OBVIOUS
  <2>2. Put(q, cap, x) = [items |-> Append(r.items, x), size |-> r.size + 1]
    BY <1>2, <2>1 DEF Put
  <2>3. /\ r \in QueueOf(S)
        /\ cap > 0 /\ q.size <= cap => r.size < cap
        /\ IsInjective(q.items) => /\ IsInjective(r.items)
                                   /\ ToSet(r.items) = ToSet(q.items) \ Evicted(q, cap)
    BY <2>1, RoomFacts
  <2>4. r.items \in Seq(S) /\ r.size \in Nat /\ r.size = Len(r.items)
    BY <2>3 DEF QueueOf
  <2>5. /\ Append(r.items, x) \in Seq(S)
        /\ ToSet(Append(r.items, x)) = ToSet(r.items) \cup {x}
        /\ IsInjective(r.items) /\ x \notin ToSet(r.items) => IsInjective(Append(r.items, x))
    BY <2>4, AppendedList
  <2>6. Len(Append(r.items, x)) = r.size + 1
    BY <2>4, AppendProperties
  <2>7. Put(q, cap, x) \in QueueOf(S)
    BY <2>2, <2>4, <2>5, <2>6 DEF QueueOf
  <2>8. Put(q, cap, x).items = Append(r.items, x) /\ Put(q, cap, x).size = r.size + 1
    BY <2>2
  <2>9. cap # -1 /\ q.size <= cap => r.size + 1 <= cap
    <3>1. q.size \in Nat
      BY DEF QueueOf
    <3> QED BY <1>2, <2>3, <2>4, <3>1
  <2> QED BY <1>2, <2>3, <2>5, <2>7, <2>8, <2>9
<1> QED BY <1>1, <1>2

\* prioqueue_pop_high.
LEMMA TakenFacts ==
    ASSUME NEW S, NEW q \in QueueOf(S), q.items # <<>>
    PROVE  /\ Taken(q) \in QueueOf(S)
           /\ Taken(q).size <= q.size
           /\ Taken(q).items = Tail(q.items)
           /\ Head(q.items) \in S /\ Head(q.items) \in ToSet(q.items)
           /\ IsInjective(q.items) => /\ IsInjective(Taken(q).items)
                                      /\ ToSet(Taken(q).items) = ToSet(q.items) \ {Head(q.items)}
<1>1. q.items \in Seq(S) /\ q.size \in Nat /\ q.size = Len(q.items)
  BY DEF QueueOf
<1>2. Taken(q) = [items |-> Tail(q.items), size |-> q.size - 1]
  BY DEF Taken
<1>3. /\ Tail(q.items) \in Seq(S) /\ Len(Tail(q.items)) = Len(q.items) - 1
      /\ Head(q.items) \in ToSet(q.items) /\ Head(q.items) \in S
      /\ IsInjective(q.items) => /\ IsInjective(Tail(q.items))
                                 /\ ToSet(Tail(q.items)) = ToSet(q.items) \ {Head(q.items)}
  BY <1>1, TailFacts
<1>4. Len(q.items) # 0
  BY <1>1, SetOfList
<1>5. q.size - 1 \in Nat /\ q.size - 1 = Len(Tail(q.items)) /\ q.size - 1 <= q.size
  BY <1>1, <1>3, <1>4
<1>6. Taken(q) \in QueueOf(S)
  BY <1>2, <1>3, <1>5 DEF QueueOf
<1>7. Taken(q).items = Tail(q.items) /\ Taken(q).size = q.size - 1
  BY <1>2
<1> QED BY <1>3, <1>5, <1>6, <1>7

LEMMA EmptyQueueFacts ==
    ASSUME NEW S
    PROVE  /\ EmptyQueue \in QueueOf(S) /\ EmptyQueue.items = <<>> /\ EmptyQueue.size = 0
           /\ ToSet(<<>>) = {} /\ IsInjective(<<>>)
<1>1. <<>> \in Seq(S) /\ Len(<<>>) = 0
  BY EmptySeq
<1> QED BY <1>1 DEF EmptyQueue, QueueOf, ToSet, IsInjective

\* prioqueue_clone.
LEMMA ReversedFacts ==
    ASSUME NEW S, NEW q \in QueueOf(S)
    PROVE  /\ Reversed(q) \in QueueOf(S)
           /\ Reversed(q).size = q.size
           /\ ToSet(Reversed(q).items) = ToSet(q.items)
           /\ IsInjective(q.items) => IsInjective(Reversed(q).items)
<1>1. PICK s : s = q.items
  OBVIOUS
<1>2. s \in Seq(S) /\ q.size = Len(s) /\ Len(s) \in Nat /\ \A i \in 1..Len(s) : s[i] \in S
  BY <1>1, SetOfList, ElementOfSeq DEF QueueOf
<1>3. PICK r : r = Reverse(s)
  OBVIOUS
<1>4. r = [i \in 1..Len(s) |-> s[Len(s) - i + 1]]
  BY <1>3 DEF Reverse
<1>5. \A i \in 1..Len(s) : Len(s) - i + 1 \in 1..Len(s) /\ Len(s) - (Len(s) - i + 1) + 1 = i
  BY <1>2
<1>6. r \in [1..Len(s) -> S]
  BY <1>2, <1>4, <1>5
<1>7. r \in Seq(S) /\ Len(r) = Len(s)
  BY <1>2, <1>6, SeqDef, LenProperties
<1>8. \A i \in 1..Len(s) : r[i] = s[Len(s) - i + 1] /\ r[Len(s) - i + 1] = s[i]
  BY <1>4, <1>5
<1>9. ToSet(r) = ToSet(s)
  <2>1. \A x : x \in ToSet(r) <=> \E i \in 1..Len(s) : x = r[i]
    BY <1>7, SetOfList
  <2>2. \A x : x \in ToSet(s) <=> \E i \in 1..Len(s) : x = s[i]
    BY <1>2, SetOfList
  <2> QED BY <2>1, <2>2, <1>5, <1>8, ZenonT(30)
<1>10. ASSUME IsInjective(s) PROVE IsInjective(r)
  <2>1. \A i, j \in 1..Len(s) : s[i] = s[j] => i = j
    BY <1>2, <1>10, SetOfList
  <2>2. ASSUME NEW i \in 1..Len(s), NEW j \in 1..Len(s), r[i] = r[j] PROVE i = j
    <3>1. Len(s) - i + 1 = Len(s) - j + 1
      BY <1>5, <1>8, <2>1, <2>2
    <3> QED BY <3>1, <1>2
  <2> QED BY <1>7, <2>2, SetOfList
<1>11. Reversed(q).items = r /\ Reversed(q).size = Len(s)
  BY <1>1, <1>3 DEF Reversed
<1>12. Reversed(q) = [items |-> r, size |-> Len(s)]
  BY <1>1, <1>3 DEF Reversed
<1>13. Reversed(q) \in QueueOf(S)
  BY <1>2, <1>7, <1>12 DEF QueueOf
<1> QED BY <1>1, <1>2, <1>9, <1>10, <1>11, <1>13

-----------------------------------------------------------------------------
(* Types.                                                                  *)

\* server_context_t and client_context_t.
ServerContext ==
    {v \in [buffer : Seq(Message), replies : QueueOf({1, 2})] : Len(v.buffer) < RecordUnits}
ClientContext ==
    {c \in [queue : QueueOf(Rec), partial : Rec \cup {None}, offset : Nat, age : Nat] :
        c.queue.size <= Depth /\ c.offset < RecordUnits}

NetInv ==
    /\ link \in [Peer -> {"away", "queued", "open"}]
    /\ shut \in SUBSET Peer
    /\ wire \in [Feeder -> Seq(Message)]
    /\ inbox \in [Peer -> 0..SendRoom]

ContextInv == server \in [Conns -> ServerContext] /\ client \in [Conns -> ClientContext]

RecordInv ==
    /\ content \in [Rec -> Seq(Message)]
    /\ refs \in [Rec -> Nat]
    /\ record_queue \in QueueOf(Rec)
    /\ telemetry_queue \in QueueOf(Rec) /\ telemetry_queue.size <= Depth
    /\ log_message \in Rec \cup {None}

LocalInv ==
    /\ okay \in BOOLEAN /\ reply \in {0, 1, 2}
    /\ next \in [Feeder -> Nat \ {0}] /\ awaiting \in [Feeder -> BOOLEAN]

\* map_enum runs inside the timeout callback, or for the record just received.
FanInv ==
    /\ phase \notin {"read", "timeout"} \cup Pcomm!Ended => fan = {}
    /\ phase = "read" /\ fan # {} =>
          running \in server_map /\ reply > 0 /\ record_queue.items # <<>>

TypeInv == NetInv /\ ContextInv /\ RecordInv /\ LocalInv /\ FanInv

LEMMA FreshContexts == FreshServer \in ServerContext /\ FreshClient \in ClientContext
<1>1. EmptyQueue \in QueueOf({1, 2}) /\ EmptyQueue \in QueueOf(Rec) /\ EmptyQueue.size = 0
  BY EmptyQueueFacts
<1>2. <<>> \in Seq(Message) /\ Len(<<>>) = 0
  BY EmptySeq
<1>3. FreshServer \in ServerContext
  BY <1>1, <1>2, BufferAssumption DEF FreshServer, ServerContext
<1>4. FreshClient \in ClientContext
  BY <1>1, BufferAssumption DEF FreshClient, ClientContext
<1> QED BY <1>3, <1>4

LEMMA ServerParts ==
    ASSUME NEW v \in ServerContext
    PROVE  /\ v.buffer \in Seq(Message) /\ Len(v.buffer) \in Nat /\ Len(v.buffer) < RecordUnits
           /\ v.replies \in QueueOf({1, 2})
           /\ \A b \in Seq(Message) : Len(b) < RecordUnits => [v EXCEPT !.buffer = b] \in ServerContext
           /\ \A q \in QueueOf({1, 2}) : [v EXCEPT !.replies = q] \in ServerContext
<1>1. /\ v.buffer \in Seq(Message) /\ Len(v.buffer) < RecordUnits
      /\ v.replies \in QueueOf({1, 2})
      /\ v = [buffer |-> v.buffer, replies |-> v.replies]
  BY DEF ServerContext
<1>2. Len(v.buffer) \in Nat
  BY <1>1, LenProperties
<1>3. \A b \in Seq(Message) : Len(b) < RecordUnits => [v EXCEPT !.buffer = b] \in ServerContext
  BY <1>1 DEF ServerContext
<1>4. \A q \in QueueOf({1, 2}) : [v EXCEPT !.replies = q] \in ServerContext
  BY <1>1 DEF ServerContext
<1> QED BY <1>1, <1>2, <1>3, <1>4

LEMMA ClientParts ==
    ASSUME NEW c \in ClientContext
    PROVE  /\ c.queue \in QueueOf(Rec) /\ c.queue.size <= Depth
           /\ c.queue.items \in Seq(Rec)
           /\ c.partial \in Rec \cup {None}
           /\ c.offset \in Nat /\ c.offset < RecordUnits /\ c.age \in Nat
           /\ \A q \in QueueOf(Rec) : q.size <= Depth => [c EXCEPT !.queue = q] \in ClientContext
           /\ [c EXCEPT !.age = @ + 1] \in ClientContext
<1>1. /\ c.queue \in QueueOf(Rec) /\ c.queue.size <= Depth
      /\ c.partial \in Rec \cup {None}
      /\ c.offset \in Nat /\ c.offset < RecordUnits /\ c.age \in Nat
      /\ c = [queue |-> c.queue, partial |-> c.partial, offset |-> c.offset, age |-> c.age]
  BY DEF ClientContext
<1>2. c.queue.items \in Seq(Rec)
  BY <1>1 DEF QueueOf
<1>3. \A q \in QueueOf(Rec) : q.size <= Depth => [c EXCEPT !.queue = q] \in ClientContext
  BY <1>1 DEF ClientContext
<1>4. c.age + 1 \in Nat
  BY <1>1
<1>5. [c EXCEPT !.age = @ + 1] \in ClientContext
  BY <1>1, <1>4 DEF ClientContext
<1> QED BY <1>1, <1>2, <1>3, <1>5

\* The counts of the record buffers are numbers, and what was a buffer stays one.
LEMMA CountTypes ==
    /\ \A rc \in [Rec -> Nat] : \A r \in Rec : Hold(rc, r) \in [Rec -> Nat]
    /\ \A rc \in [Rec -> Nat] : \A gone : Release(rc, gone) \in [Rec -> Nat]
    /\ \A c \in [Rec -> Seq(Message)] : \A rc : Freed(c, rc) \in [Rec -> Seq(Message)]
    /\ \A rc \in [Rec -> Nat] : \A q, cap : \A r \in Rec :
          RefsAfterPut(rc, q, cap, r) \in [Rec -> Nat]
<1>1. ASSUME NEW rc \in [Rec -> Nat], NEW r \in Rec PROVE Hold(rc, r) \in [Rec -> Nat]
  BY DEF Hold
<1>2. ASSUME NEW rc \in [Rec -> Nat], NEW gone PROVE Release(rc, gone) \in [Rec -> Nat]
  BY DEF Release
<1>3. ASSUME NEW c \in [Rec -> Seq(Message)], NEW rc PROVE Freed(c, rc) \in [Rec -> Seq(Message)]
  <2>1. <<>> \in Seq(Message)
    BY EmptySeq
  <2> QED BY <2>1 DEF Freed
<1>4. ASSUME NEW rc \in [Rec -> Nat], NEW q, NEW cap, NEW r \in Rec
      PROVE  RefsAfterPut(rc, q, cap, r) \in [Rec -> Nat]
  BY <1>1, <1>2 DEF RefsAfterPut
<1> QED BY <1>1, <1>2, <1>3, <1>4

\* send takes part of what it is given, all of it, or nothing; a buffer does not overflow.
LEMMA SentFacts ==
    ASSUME NetInv, NEW p \in Peer, NEW n \in Nat
    PROVE  /\ Sent(p, n) \in -1..n
           /\ InboxAfter(p, n) \in [Peer -> 0..SendRoom]
           /\ \A x \in Peer : x # p => InboxAfter(p, n)[x] = inbox[x]
<1>1. inbox[p] \in 0..SendRoom /\ SendRoom \in Nat
  BY BufferAssumption DEF NetInv
<1>2. Sent(p, n) \in -1..n /\ (p \in shut \/ Sent(p, n) < 0 \/ inbox[p] + Sent(p, n) \in 0..SendRoom)
  BY <1>1 DEF Sent, Room
<1>3. PICK s : s = Sent(p, n)
  OBVIOUS
<1>4. InboxAfter(p, n) = IF p \in shut \/ s < 0 THEN inbox ELSE [inbox EXCEPT ![p] = @ + s]
  BY <1>3 DEF InboxAfter
<1>5. InboxAfter(p, n) \in [Peer -> 0..SendRoom]
  BY <1>2, <1>3, <1>4 DEF NetInv
<1>6. \A x \in Peer : x # p => InboxAfter(p, n)[x] = inbox[x]
  BY <1>4 DEF NetInv
<1> QED BY <1>2, <1>5, <1>6

LEMMA ClosedNet ==
    ASSUME NetInv, NEW k, Closed(k), wire' = wire PROVE NetInv'
<1>1. link' \in [Peer -> {"away", "queued", "open"}] /\ shut' \in SUBSET Peer
  BY DEF NetInv, Closed
<1>2. 0 \in 0..SendRoom
  BY BufferAssumption
<1>3. inbox' \in [Peer -> 0..SendRoom]
  BY <1>2 DEF NetInv, Closed
<1> QED BY <1>1, <1>3 DEF NetInv

\* What is left of a list behind a position, and a list without its last element.
LEMMA RestType ==
    ASSUME NEW S, NEW w \in Seq(S), NEW n \in Nat
    PROVE  SubSeq(w, n + 1, Len(w)) \in Seq(S)
<1>1. Len(w) \in Nat /\ \A i \in 1..Len(w) : w[i] \in S
  BY LenProperties, ElementOfSeq
<1>2. \A i \in (n + 1)..Len(w) : w[i] \in S
  BY <1>1
<1>3. n + 1 \in Nat /\ n + 1 > 0
  OBVIOUS
<1>4. \A i \in (n + 1)..Len(w) : i \in 1..Len(w)
  BY <1>1
<1> QED BY <1>1, <1>2, <1>3, <1>4, SubSeqProperties

LEMMA NetStep == OpenInv /\ TypeInv /\ [Next]_vars => NetInv'
<1> SUFFICES ASSUME OpenInv, TypeInv, [Next]_vars PROVE NetInv'
  OBVIOUS
<1>1. ASSUME UNCHANGED <<link, shut, wire, inbox>> PROVE NetInv'
  BY <1>1 DEF TypeInv, NetInv
<1>2. NetInv /\ ContextInv /\ RecordInv /\ LocalInv
  BY DEF TypeInv
<1>3. ASSUME NEW k \in server_map
      PROVE  k \in Conns /\ server[k] \in ServerContext /\ sock[k] \in Feeder /\ sock[k] \in Peer
             /\ wire[sock[k]] \in Seq(Message)
  BY <1>2 DEF OpenInv, ContextInv, NetInv, Peer
<1>4. CASE callback_archive
  BY <1>1, <1>4 DEF callback_archive, ArchiveData, CombineLog, HoldLog, ArchiveDone, net
<1>5. CASE callback_server_connect \/ callback_client_connect
  <2>1. UNCHANGED <<shut, wire, inbox>>
    BY <1>5 DEF callback_server_connect, callback_client_connect, net
  <2>2. link' = link \/ \E p \in Peer : link' = [link EXCEPT ![p] = "open"]
    BY <1>5 DEF callback_server_connect, callback_client_connect, net, Peer
  <2> QED BY <1>2, <2>1, <2>2 DEF NetInv
<1>6. ASSUME NEW k \in Conns, ReceivePiece(k) PROVE NetInv'
  <2>1. wire' = [wire EXCEPT ![sock[k]] = <<>>] /\ UNCHANGED <<link, shut, inbox>>
    BY <1>6 DEF ReceivePiece
  <2>2. <<>> \in Seq(Message)
    BY EmptySeq
  <2> QED BY <1>2, <2>1, <2>2 DEF NetInv
<1>7. ASSUME NEW k \in Conns, ReceiveRecord(k) PROVE NetInv'
  <2>1. /\ wire' = [wire EXCEPT ![sock[k]] = SubSeq(@, Wanted(k) + 1, Len(@))]
        /\ UNCHANGED <<link, shut, inbox>> /\ k \in server_map
    BY <1>7 DEF ReceiveRecord, Receiving
  <2>2. PICK w : w = wire[sock[k]]
    OBVIOUS
  <2>3. w \in Seq(Message) /\ sock[k] \in Feeder
    BY <1>3, <2>1, <2>2
  <2>4. Wanted(k) \in Nat
    BY <1>3, <2>1, ServerParts, BufferAssumption DEF Wanted
  <2>5. SubSeq(w, Wanted(k) + 1, Len(w)) \in Seq(Message)
    BY <2>3, <2>4, RestType
  <2>6. wire' = [wire EXCEPT ![sock[k]] = SubSeq(w, Wanted(k) + 1, Len(w))]
    BY <2>1, <2>2
  <2> QED BY <1>2, <2>1, <2>3, <2>5, <2>6 DEF NetInv
<1>8. ASSUME NEW k \in Conns, SendReply(k) PROVE NetInv'
  <2>1. inbox' = InboxAfter(sock[k], reply) /\ UNCHANGED <<link, shut, wire>> /\ k \in server_map
    BY <1>8 DEF SendReply, Receiving
  <2>2. reply \in Nat
    BY <1>2 DEF LocalInv
  <2> QED BY <1>2, <1>3, <2>1, <2>2, SentFacts DEF NetInv
<1>9. ASSUME NEW k \in Conns, ReceiveNothing(k) \/ ClientDrained(k) PROVE NetInv'
  BY <1>1, <1>9 DEF ReceiveNothing, ClientDrained, net
<1>10. ASSUME NEW k \in Conns, callback_server_closed(k) PROVE NetInv'
  BY <1>2, <1>10, ClosedNet DEF callback_server_closed
<1>11. ASSUME NEW k \in Conns, callback_server_can_send(k) PROVE NetInv'
  <2> DEFINE items == server[k].replies.items
  <2>1. UNCHANGED <<link, shut, wire>> /\ k \in server_map
    BY <1>11 DEF callback_server_can_send
  <2>2. inbox' = inbox \/ (items # <<>> /\ inbox' = InboxAfter(sock[k], Head(items)))
    BY <1>11 DEF callback_server_can_send
  <2>3. items # <<>> => Head(items) \in {1, 2}
    BY <1>3, <2>1, ServerParts, TakenFacts
  <2> HIDE DEF items
  <2>4. items # <<>> => Head(items) \in Nat
    BY <2>3
  <2>5. CASE inbox' = inbox
    BY <1>1, <2>1, <2>5
  <2>6. CASE items # <<>> /\ inbox' = InboxAfter(sock[k], Head(items))
    <3>1. InboxAfter(sock[k], Head(items)) \in [Peer -> 0..SendRoom]
      BY <1>2, <1>3, <2>1, <2>4, <2>6, SentFacts
    <3> QED BY <1>2, <2>1, <2>6, <3>1 DEF NetInv
  <2> QED BY <2>2, <2>5, <2>6
<1>12. ASSUME NEW k \in Conns, add_client_record(k) \/ RetireOldClient(k) PROVE NetInv'
  <2>1. wire' = wire
    BY <1>12 DEF add_client_record, RetireOldClient
  <2>2. Closed(k) \/ UNCHANGED <<link, shut, inbox>>
    BY <1>12 DEF add_client_record, RetireOldClient, ClientClosed
  <2> QED BY <1>1, <1>2, <2>1, <2>2, ClosedNet
<1>13. ASSUME NEW k \in Conns, callback_client_can_send(k) PROVE NetInv'
  <2>1. /\ inbox' = InboxAfter(sock[k], Left(client[k])) /\ UNCHANGED <<link, shut, wire>>
        /\ k \in client_map
    BY <1>13 DEF callback_client_can_send
  <2>2. client[k] \in ClientContext /\ sock[k] \in Peer
    BY <1>2, <2>1 DEF ContextInv, OpenInv, Peer
  <2>3. client[k].offset \in Nat /\ client[k].offset < RecordUnits
    BY <2>2, ClientParts
  <2>4. Left(client[k]) \in Nat
    BY <2>3, BufferAssumption DEF Left
  <2> QED BY <1>2, <2>1, <2>2, <2>4, SentFacts DEF NetInv
<1>14. CASE LoopStep \/ SelectReturns \/ Sigterm \/ Killed
  BY <1>1, <1>14, LoopLeaves DEF net
<1>15. CASE Restart
  BY <1>1, <1>15 DEF Restart
<1>16. CASE UNCHANGED vars
  BY <1>1, <1>16 DEF vars, net
<1>17. ASSUME NEW p \in Peer, Connect(p) PROVE NetInv'
  BY <1>2, <1>17 DEF Connect, NetInv
<1>18. ASSUME NEW p \in Peer, HangUp(p) PROVE NetInv'
  <2>1. shut' = shut \cup {p} /\ UNCHANGED <<link, inbox>>
    BY <1>18 DEF HangUp
  <2>2. CASE wire' = wire
    BY <1>2, <2>1, <2>2 DEF NetInv
  <2>3. CASE p \in Feeder /\ wire' = [wire EXCEPT ![p] = IF @ = <<>> THEN @ ELSE Front(@)]
    <3>1. PICK w : w = wire[p]
      OBVIOUS
    <3>2. w \in Seq(Message)
      BY <1>2, <2>3, <3>1 DEF NetInv
    <3>3. w # <<>> => Front(w) \in Seq(Message)
      BY <3>2, FrontFacts DEF Front
    <3>4. wire' = [wire EXCEPT ![p] = IF w = <<>> THEN w ELSE Front(w)]
      BY <2>3, <3>1
    <3> QED BY <1>2, <2>1, <2>3, <3>2, <3>3, <3>4 DEF NetInv
  <2> QED BY <1>18, <2>2, <2>3 DEF HangUp
<1>19. ASSUME NEW p \in Peer, ConnectionLost(p) PROVE NetInv'
  <2>1. 0 \in 0..SendRoom /\ <<>> \in Seq(Message)
    BY BufferAssumption, EmptySeq
  <2>2. /\ link' = [link EXCEPT ![p] = "away"] /\ shut' = shut \ {p}
        /\ inbox' = [inbox EXCEPT ![p] = 0]
        /\ wire' \in {wire, [wire EXCEPT ![p] = <<>>]}
    BY <1>19 DEF ConnectionLost
  <2> QED BY <1>2, <2>1, <2>2 DEF NetInv
<1>20. ASSUME NEW f \in Feeder, SendRecord(f) PROVE NetInv'
  <2> DEFINE new == [i \in 1..RecordUnits |-> [from |-> f, no |-> next[f]]]
  <2>1. next[f] \in Nat \ {0}
    BY <1>2 DEF LocalInv
  <2>2. [from |-> f, no |-> next[f]] \in Message
    BY <2>1 DEF Message
  <2>3. new \in [1..RecordUnits -> Message]
    BY <2>2
  <2>4. new \in Seq(Message)
    BY <2>3, SeqDef, BufferAssumption
  <2> HIDE DEF new
  <2>5. PICK w : w = wire[f] \o new
    OBVIOUS
  <2>6. w \in Seq(Message)
    BY <1>2, <2>4, <2>5, ConcatProperties DEF NetInv
  <2>7. wire' = [wire EXCEPT ![f] = w] /\ UNCHANGED <<link, shut, inbox>>
    BY <1>20, <2>5 DEF SendRecord, new
  <2> QED BY <1>2, <2>6, <2>7 DEF NetInv
<1>21. ASSUME NEW p \in Peer, GetReply(p) \/ ClientReads(p) PROVE NetInv'
  <2>1. /\ inbox' = [inbox EXCEPT ![p] = @ - 1] /\ inbox[p] > 0
        /\ UNCHANGED <<link, shut, wire>>
    BY <1>21 DEF GetReply, ClientReads
  <2>2. inbox[p] - 1 \in 0..SendRoom
    BY <1>2, <2>1, BufferAssumption DEF NetInv
  <2> QED BY <1>2, <2>1, <2>2 DEF NetInv
<1>22. ASSUME NEW k \in Conns, Elapse(k) PROVE NetInv'
  BY <1>1, <1>22 DEF Elapse, net
<1>23. CASE PeerStep
  BY <1>17, <1>18, <1>19, <1>20, <1>21, <1>22, <1>23 DEF PeerStep, Peer
<1>24. CASE CallbackStep
  BY <1>4, <1>5, <1>6, <1>7, <1>8, <1>9, <1>10, <1>11, <1>12, <1>13, <1>24 DEF CallbackStep
<1> QED BY <1>14, <1>15, <1>16, <1>23, <1>24 DEF Next, ArchdStep

\* The client context once the record at hand has been sent.
LEMMA WithoutCurrentFacts ==
    ASSUME NEW c \in ClientContext, ~NothingToSend(c)
    PROVE  /\ WithoutCurrent(c) \in ClientContext
           /\ Current(c) \in Rec
           /\ Left(c) \in Nat /\ Left(c) <= RecordUnits
<1>1. /\ c.queue \in QueueOf(Rec) /\ c.queue.size <= Depth /\ c.queue.size \in Nat
      /\ c.partial \in Rec \cup {None}
      /\ c.offset \in Nat /\ c.offset < RecordUnits
  BY ClientParts DEF QueueOf
<1>2. c.partial = None => c.queue.items # <<>>
  BY DEF NothingToSend
<1>3. c.partial = None => /\ Taken(c.queue) \in QueueOf(Rec) /\ Taken(c.queue).size <= c.queue.size
                          /\ Head(c.queue.items) \in Rec
  BY <1>1, <1>2, TakenFacts
<1>4. PICK q : q = IF c.partial # None THEN c.queue ELSE Taken(c.queue)
  OBVIOUS
<1>5. q \in QueueOf(Rec)
  BY <1>1, <1>3, <1>4
<1>6. q.size \in Nat
  BY <1>5 DEF QueueOf
<1>7. q.size <= Depth
  BY <1>1, <1>3, <1>4, <1>6, BufferAssumption
<1>8. WithoutCurrent(c) = [queue |-> q, partial |-> None, offset |-> 0, age |-> 0]
  BY <1>4 DEF WithoutCurrent
<1>9. WithoutCurrent(c) \in ClientContext
  BY <1>5, <1>7, <1>8, BufferAssumption DEF ClientContext
<1>10. Current(c) \in Rec
  BY <1>1, <1>3 DEF Current
<1>11. Left(c) \in Nat /\ Left(c) <= RecordUnits
  BY <1>1, BufferAssumption DEF Left
<1> QED BY <1>9, <1>10, <1>11

\* A record received last, while the clients are visited.
LEMMA LastReceived ==
    ASSUME TypeInv, OpenInv, NEW k, Receiving(running), k \in fan
    PROVE  Last(record_queue.items) \in Rec /\ Last(record_queue.items) \in ToSet(record_queue.items)
<1>1. record_queue.items # <<>>
  BY DEF TypeInv, FanInv, Receiving
<1>2. record_queue.items \in Seq(Rec)
  BY DEF TypeInv, RecordInv, QueueOf
<1> QED BY <1>1, <1>2, FrontFacts, SetOfList DEF Last

LEMMA ServerStep == OpenInv /\ TypeInv /\ [Next]_vars => server' \in [Conns -> ServerContext]
<1> SUFFICES ASSUME OpenInv, TypeInv, [Next]_vars PROVE server' \in [Conns -> ServerContext]
  OBVIOUS
<1>1. server \in [Conns -> ServerContext]
  BY DEF TypeInv, ContextInv
<1>2. ASSUME NEW k, NEW v \in ServerContext, server' = [server EXCEPT ![k] = v]
      PROVE  server' \in [Conns -> ServerContext]
  BY <1>1, <1>2
<1>3. CASE server' = server
  BY <1>1, <1>3
<1>4. CASE callback_server_connect
  BY <1>2, <1>3, <1>4, FreshContexts DEF callback_server_connect
<1>5. ASSUME NEW k \in Conns, ReceivePiece(k) PROVE server' \in [Conns -> ServerContext]
  <2>1. /\ server' = [server EXCEPT ![k].buffer = @ \o Incoming(k)]
        /\ Len(Incoming(k)) < Wanted(k) /\ k \in server_map
    BY <1>5 DEF ReceivePiece, Receiving
  <2>2. PICK b, w : b = server[k].buffer /\ w = Incoming(k)
    OBVIOUS
  <2>3. server[k] \in ServerContext /\ w \in Seq(Message)
    BY <1>1, <2>1, <2>2 DEF OpenInv, TypeInv, NetInv, Incoming
  <2>4. b \in Seq(Message) /\ Len(b) \in Nat /\ Len(b) < RecordUnits
    BY <2>2, <2>3, ServerParts
  <2>5. b \o w \in Seq(Message) /\ Len(b \o w) = Len(b) + Len(w) /\ Len(w) \in Nat
    BY <2>3, <2>4, ConcatProperties, LenProperties
  <2>6. Len(w) < RecordUnits - Len(b)
    BY <2>1, <2>2 DEF Wanted
  <2>7. Len(b \o w) < RecordUnits
    BY <2>4, <2>5, <2>6, BufferAssumption
  <2>8. [server[k] EXCEPT !.buffer = b \o w] \in ServerContext
    BY <2>3, <2>5, <2>7, ServerParts
  <2>9. server' = [server EXCEPT ![k] = [server[k] EXCEPT !.buffer = b \o w]]
    BY <1>1, <2>1, <2>2
  <2> QED BY <1>2, <2>8, <2>9
<1>6. ASSUME NEW k \in Conns, ReceiveRecord(k) PROVE server' \in [Conns -> ServerContext]
  <2>1. <<>> \in Seq(Message) /\ Len(<<>>) = 0
    BY EmptySeq
  <2>2. [server[k] EXCEPT !.buffer = <<>>] \in ServerContext
    <3>1. Len(<<>>) < RecordUnits
      BY <2>1, BufferAssumption
    <3> QED BY <1>1, <2>1, <3>1, ServerParts
  <2>3. server' = [server EXCEPT ![k] = [server[k] EXCEPT !.buffer = <<>>]]
    BY <1>1, <1>6 DEF ReceiveRecord
  <2> QED BY <1>2, <2>2, <2>3
<1>7. ASSUME NEW k \in Conns, SendReply(k) PROVE server' \in [Conns -> ServerContext]
  <2>1. reply \in {1, 2}
    BY <1>7 DEF SendReply, TypeInv, LocalInv
  <2>2. PICK q : q = Put(server[k].replies, -1, reply)
    OBVIOUS
  <2>3. q \in QueueOf({1, 2})
    BY <1>1, <2>1, <2>2, ServerParts, PutFacts
  <2>4. [server[k] EXCEPT !.replies = q] \in ServerContext
    BY <1>1, <2>3, ServerParts
  <2>5. server' = server \/ server' = [server EXCEPT ![k] = [server[k] EXCEPT !.replies = q]]
    BY <1>1, <1>7, <2>2 DEF SendReply
  <2> QED BY <1>2, <1>3, <2>4, <2>5
<1>8. ASSUME NEW k \in Conns, callback_server_closed(k) PROVE server' \in [Conns -> ServerContext]
  BY <1>2, <1>8, FreshContexts DEF callback_server_closed
<1>9. ASSUME NEW k \in Conns, callback_server_can_send(k) PROVE server' \in [Conns -> ServerContext]
  <2>1. CASE server[k].replies.items # <<>> /\ server' = [server EXCEPT ![k].replies = Taken(@)]
    <3>1. PICK q : q = Taken(server[k].replies)
      OBVIOUS
    <3>2. q \in QueueOf({1, 2})
      BY <1>1, <2>1, <3>1, ServerParts, TakenFacts
    <3>3. [server[k] EXCEPT !.replies = q] \in ServerContext
      BY <1>1, <3>2, ServerParts
    <3>4. server' = [server EXCEPT ![k] = [server[k] EXCEPT !.replies = q]]
      BY <1>1, <2>1, <3>1
    <3> QED BY <1>2, <3>3, <3>4
  <2> QED BY <1>3, <1>9, <2>1 DEF callback_server_can_send
<1>10. CASE callback_archive \/ callback_client_connect
  BY <1>3, <1>10 DEF callback_archive, ArchiveData, CombineLog, HoldLog, ArchiveDone, contexts,
                     callback_client_connect
<1>11. ASSUME NEW k \in Conns, \/ ReceiveNothing(k) \/ add_client_record(k) \/ RetireOldClient(k)
                               \/ callback_client_can_send(k) \/ ClientDrained(k)
       PROVE  server' \in [Conns -> ServerContext]
  BY <1>3, <1>11 DEF ReceiveNothing, add_client_record, RetireOldClient, callback_client_can_send,
                     ClientDrained, contexts
<1>12. CASE LoopStep \/ SelectReturns \/ Sigterm \/ Killed \/ PeerStep \/ UNCHANGED vars
  BY <1>3, <1>12, LoopLeaves, PeersLeave DEF contexts, vars
<1>13. CASE Restart
  BY <1>13, FreshContexts DEF Restart
<1>14. CASE CallbackStep
  BY <1>4, <1>5, <1>6, <1>7, <1>8, <1>9, <1>10, <1>11, <1>14 DEF CallbackStep
<1> QED BY <1>12, <1>13, <1>14 DEF Next, ArchdStep

LEMMA ClientStep == OpenInv /\ TypeInv /\ [Next]_vars => client' \in [Conns -> ClientContext]
<1> SUFFICES ASSUME OpenInv, TypeInv, [Next]_vars PROVE client' \in [Conns -> ClientContext]
  OBVIOUS
<1>1. client \in [Conns -> ClientContext]
  BY DEF TypeInv, ContextInv
<1>2. ASSUME NEW k, NEW v \in ClientContext, client' = [client EXCEPT ![k] = v]
      PROVE  client' \in [Conns -> ClientContext]
  BY <1>1, <1>2
<1>3. CASE client' = client
  BY <1>1, <1>3
<1>4. CASE callback_client_connect
  <2>1. PICK q : q = Reversed(telemetry_queue)
    OBVIOUS
  <2>2. q \in QueueOf(Rec) /\ q.size <= Depth
    BY <2>1, ReversedFacts DEF TypeInv, RecordInv
  <2>3. [FreshClient EXCEPT !.queue = q] \in ClientContext
    BY <2>2, FreshContexts, ClientParts
  <2>4. client' = client \/ client' = [client EXCEPT ![Min(Unused)] = [FreshClient EXCEPT !.queue = q]]
    BY <1>4, <2>1 DEF callback_client_connect
  <2> QED BY <1>2, <1>3, <2>3, <2>4
<1>5. ASSUME NEW k, NEW rc, NEW queue, ClientClosed(k, rc, queue)
      PROVE  client' \in [Conns -> ClientContext]
  BY <1>2, <1>5, FreshContexts DEF ClientClosed
<1>6. ASSUME NEW k \in Conns, add_client_record(k) PROVE client' \in [Conns -> ClientContext]
  <2>1. PICK q : q = Put(client[k].queue, Depth, Last(record_queue.items))
    OBVIOUS
  <2>2. Last(record_queue.items) \in Rec
    BY <1>6, LastReceived DEF add_client_record
  <2>3. client[k].queue \in QueueOf(Rec) /\ client[k].queue.size <= Depth
    BY <1>1, ClientParts
  <2>4. q \in QueueOf(Rec) /\ q.size <= Depth
    BY <2>1, <2>2, <2>3, PutFacts, BufferAssumption
  <2>5. [client[k] EXCEPT !.queue = q] \in ClientContext
    BY <1>1, <2>4, ClientParts
  <2>6. CASE client' = [client EXCEPT ![k].queue = q]
    <3>1. client' = [client EXCEPT ![k] = [client[k] EXCEPT !.queue = q]]
      BY <1>1, <2>6
    <3> QED BY <1>2, <2>5, <3>1
  <2> QED BY <1>5, <1>6, <2>1, <2>6 DEF add_client_record
<1>7. ASSUME NEW k \in Conns, RetireOldClient(k) PROVE client' \in [Conns -> ClientContext]
  BY <1>3, <1>5, <1>7 DEF RetireOldClient
<1>8. ASSUME NEW k \in Conns, callback_client_can_send(k) PROVE client' \in [Conns -> ClientContext]
  <2>1. PICK c, p, w : c = client[k] /\ p = sock[k] /\ w = WithoutCurrent(c)
    OBVIOUS
  <2>2. c \in ClientContext /\ ~NothingToSend(c) /\ p \in Peer
    BY <1>1, <1>8, <2>1 DEF callback_client_can_send, OpenInv, Peer
  <2>3. w \in ClientContext /\ Current(c) \in Rec /\ Left(c) \in Nat /\ Left(c) <= RecordUnits
    BY <2>1, <2>2, WithoutCurrentFacts
  <2>4. CASE SentShort(p, Left(c))
    <3>1. PICK o : o = RecordUnits - Left(c) + Sent(p, Left(c))
      OBVIOUS
    <3>2. Sent(p, Left(c)) \in -1..Left(c)
      BY <2>2, <2>3, SentFacts DEF TypeInv
    <3>3. o \in Nat /\ o < RecordUnits
      BY <2>3, <2>4, <3>1, <3>2, BufferAssumption DEF SentShort
    <3>4. /\ w \in [queue : QueueOf(Rec), partial : Rec \cup {None}, offset : Nat, age : Nat]
          /\ w.queue.size <= Depth
      BY <2>3 DEF ClientContext
    <3>5. PICK v : v = [w EXCEPT !.partial = Current(c), !.offset = o]
      OBVIOUS
    <3>6. [w EXCEPT !.partial = Current(c), !.offset = o] \in ClientContext
      <4>1. /\ v \in [queue : QueueOf(Rec), partial : Rec \cup {None}, offset : Nat, age : Nat]
            /\ v.queue = w.queue /\ v.offset = o
        BY <2>3, <3>3, <3>4, <3>5
      <4> QED BY <3>3, <3>4, <3>5, <4>1 DEF ClientContext
    <3>7. client' = [client EXCEPT ![k] = [w EXCEPT !.partial = Current(c), !.offset = o]]
      BY <1>8, <2>1, <2>4, <3>1 DEF callback_client_can_send
    <3> QED BY <1>2, <3>6, <3>7
  <2>5. CASE ~SentShort(p, Left(c))
    <3>1. client' = [client EXCEPT ![k] = w]
      BY <1>8, <2>1, <2>5 DEF callback_client_can_send
    <3> QED BY <1>2, <2>3, <3>1
  <2> QED BY <2>4, <2>5
<1>9. ASSUME NEW k \in Conns, Elapse(k) PROVE client' \in [Conns -> ClientContext]
  <2>1. client' = [client EXCEPT ![k] = [client[k] EXCEPT !.age = @ + 1]]
    BY <1>1, <1>9 DEF Elapse
  <2> QED BY <1>1, <1>2, <2>1, ClientParts
<1>10. CASE callback_archive \/ callback_server_connect
  BY <1>3, <1>10 DEF callback_archive, ArchiveData, CombineLog, HoldLog, ArchiveDone, contexts,
                     callback_server_connect
<1>11. ASSUME NEW k \in Conns, \/ ReceivePiece(k) \/ ReceiveRecord(k) \/ SendReply(k)
                               \/ ReceiveNothing(k) \/ callback_server_closed(k)
                               \/ callback_server_can_send(k) \/ ClientDrained(k)
       PROVE  client' \in [Conns -> ClientContext]
  BY <1>3, <1>11 DEF ReceivePiece, ReceiveRecord, SendReply, ReceiveNothing, callback_server_closed,
                     callback_server_can_send, ClientDrained, contexts
<1>12. CASE LoopStep \/ SelectReturns \/ Sigterm \/ Killed \/ UNCHANGED vars
  BY <1>3, <1>12, LoopLeaves DEF contexts, vars
<1>13. CASE Restart
  BY <1>13, FreshContexts DEF Restart
<1>14. CASE PeerStep
  BY <1>3, <1>9, <1>14 DEF PeerStep, Connect, HangUp, ConnectionLost, SendRecord, GetReply,
                           ClientReads, contexts
<1>15. CASE CallbackStep
  BY <1>4, <1>6, <1>7, <1>8, <1>10, <1>11, <1>15 DEF CallbackStep
<1> QED BY <1>12, <1>13, <1>14, <1>15 DEF Next, ArchdStep

\* The message of a record that is complete with what the socket has.
LEMMA WholeRecord ==
    ASSUME OpenInv, TypeInv, NEW k, Receiving(k), Len(Incoming(k)) >= Wanted(k)
    PROVE  (server[k].buffer \o SubSeq(Incoming(k), 1, Wanted(k)))[1] \in Message
<1>1. PICK b, w, n : b = server[k].buffer /\ w = Incoming(k) /\ n = Wanted(k)
  OBVIOUS
<1>2. server[k] \in ServerContext /\ w \in Seq(Message)
  BY <1>1 DEF OpenInv, TypeInv, ContextInv, NetInv, Incoming, Receiving
<1>3. b \in Seq(Message) /\ Len(b) \in Nat /\ Len(b) < RecordUnits /\ n = RecordUnits - Len(b)
  BY <1>1, <1>2, ServerParts DEF Wanted
<1>4. n \in Nat /\ n >= 1 /\ Len(w) >= n /\ Len(w) \in Nat /\ \A i \in 1..Len(w) : w[i] \in Message
  BY <1>1, <1>2, <1>3, LenProperties, ElementOfSeq, BufferAssumption
<1>5. \A i \in 1..n : w[i] \in Message
  BY <1>4
<1>6. PICK u : u = SubSeq(w, 1, n)
  OBVIOUS
<1>7. u \in Seq(Message) /\ Len(u) = n
  <2>1. /\ u \in Seq(Message)
        /\ Len(u) = (IF 1 <= n THEN n - 1 + 1 ELSE 0)
    BY <1>4, <1>5, <1>6, SubSeqProperties
  <2> QED BY <1>4, <2>1
<1>8. b \o u \in Seq(Message) /\ Len(b \o u) = Len(b) + Len(u)
  BY <1>3, <1>7, ConcatProperties
<1>9. 1 \in 1..Len(b \o u)
  BY <1>3, <1>4, <1>7, <1>8
<1>10. (b \o u)[1] \in Message
  BY <1>8, <1>9, ElementOfSeq
<1> QED BY <1>1, <1>6, <1>10

\* ReceiveRecord queues a message in a free buffer, or leaves the records alone.
LEMMA ReceivedRecord ==
    ASSUME OpenInv, TypeInv, NEW k, ReceiveRecord(k)
    PROVE  \/ /\ UNCHANGED <<content, refs, record_queue, telemetry_queue>>
              /\ reply' = 2 /\ fan' = {}
           \/ /\ \E m \in Message : \E r \in FreeRecs : QueueRecord(m, r)
              /\ reply' = 1
              /\ fan' = IF Depth = 0 THEN {} ELSE client_map
<1>1. PICK m : m = (server[k].buffer \o SubSeq(Incoming(k), 1, Wanted(k)))[1]
  OBVIOUS
<1>2. m \in Message
  BY <1>1, WholeRecord DEF ReceiveRecord
<1>3. \/ /\ UNCHANGED <<content, refs, record_queue, telemetry_queue>>
         /\ reply' = 2 /\ fan' = {}
      \/ /\ FreeRecs # {} /\ QueueRecord(m, Min(FreeRecs))
         /\ reply' = 1
         /\ fan' = IF Depth = 0 THEN {} ELSE client_map
  BY <1>1 DEF ReceiveRecord
<1>4. FreeRecs # {} => Min(FreeRecs) \in FreeRecs
  <2>1. FreeRecs \subseteq Nat
    BY BufferAssumption DEF FreeRecs
  <2> QED BY <2>1, LeastIn
<1> QED BY <1>2, <1>3, <1>4

LEMMA QueueRecordTypes ==
    ASSUME RecordInv, NEW m \in Message, NEW r \in Rec, QueueRecord(m, r), log_message' = log_message
    PROVE  RecordInv'
<1>1. record_queue' = Put(record_queue, -1, r)
  BY DEF QueueRecord
<1>2. record_queue' \in QueueOf(Rec)
  BY <1>1, PutFacts DEF RecordInv
<1>3. refs' \in [Rec -> Nat]
  <2>1. PICK h : h = Hold(refs, r)
    OBVIOUS
  <2>2. h \in [Rec -> Nat]
    BY <2>1, CountTypes DEF RecordInv
  <2>3. RefsAfterPut(h, telemetry_queue, Depth, r) \in [Rec -> Nat]
    BY <2>2, CountTypes
  <2>4. refs' \in {h, RefsAfterPut(h, telemetry_queue, Depth, r)}
    BY <2>1 DEF QueueRecord
  <2> QED BY <2>2, <2>3, <2>4
<1>4. telemetry_queue' \in QueueOf(Rec) /\ telemetry_queue'.size <= Depth
  <2>1. telemetry_queue \in QueueOf(Rec) /\ telemetry_queue.size <= Depth
    BY DEF RecordInv
  <2>2. Depth \in Nat \cup {-1} /\ Depth # -1
    BY BufferAssumption
  <2>3. PICK q : q = Put(telemetry_queue, Depth, r)
    OBVIOUS
  <2>4. q \in QueueOf(Rec) /\ q.size <= Depth
    BY <2>1, <2>2, <2>3, PutFacts
  <2>5. telemetry_queue' \in {telemetry_queue, q}
    BY <2>3 DEF QueueRecord
  <2> QED BY <2>1, <2>4, <2>5
<1>5. content' \in [Rec -> Seq(Message)]
  <2>1. <<m>> \in Seq(Message)
    OBVIOUS
  <2>2. PICK c : c = [content EXCEPT ![r] = <<m>>]
    OBVIOUS
  <2>3. c \in [Rec -> Seq(Message)]
    BY <2>1, <2>2 DEF RecordInv
  <2>4. content' = Freed(c, refs')
    BY <2>2 DEF QueueRecord
  <2> QED BY <2>3, <2>4, CountTypes
<1> QED BY <1>2, <1>3, <1>4, <1>5 DEF RecordInv

LEMMA RecordStep == OpenInv /\ TypeInv /\ [Next]_vars => RecordInv'
<1> SUFFICES ASSUME OpenInv, TypeInv, [Next]_vars PROVE RecordInv'
  OBVIOUS
<1>1. RecordInv /\ ContextInv
  BY DEF TypeInv
<1>2. CASE UNCHANGED records
  BY <1>1, <1>2 DEF RecordInv, records
<1>3. ASSUME refs' \in [Rec -> Nat], content' = Freed(content, refs') \/ content' = content,
             UNCHANGED <<record_queue, telemetry_queue, log_message>>
      PROVE  RecordInv'
  BY <1>1, <1>3, CountTypes DEF RecordInv
<1>4. ASSUME record_queue.items # <<>>
      PROVE  Head(record_queue.items) \in Rec /\ Taken(record_queue) \in QueueOf(Rec)
  BY <1>1, <1>4, TakenFacts DEF RecordInv
<1>5. CASE ArchiveData
  <2>1. /\ refs' = Release(refs, {Head(record_queue.items)}) /\ content' = Freed(content, refs')
        /\ record_queue.items # <<>> /\ record_queue' = Taken(record_queue)
        /\ UNCHANGED <<telemetry_queue, log_message>>
    BY <1>5 DEF ArchiveData
  <2> QED BY <1>1, <1>4, <2>1, CountTypes DEF RecordInv
<1>6. CASE CombineLog
  <2>1. PICK r : r = Head(record_queue.items)
    OBVIOUS
  <2>2. /\ refs' = Release(refs, {r}) /\ content' = Freed(Combined(r), refs')
        /\ record_queue.items # <<>> /\ record_queue' = Taken(record_queue)
        /\ UNCHANGED <<telemetry_queue, log_message>> /\ log_message # None
    BY <1>6, <2>1 DEF CombineLog, Combines
  <2>3. r \in Rec /\ log_message \in Rec
    BY <1>1, <1>4, <2>1, <2>2 DEF RecordInv
  <2>4. content[log_message] \o content[r] \in Seq(Message)
    BY <1>1, <2>3, ConcatProperties DEF RecordInv
  <2>5. Combined(r) \in [Rec -> Seq(Message)]
    BY <1>1, <2>3, <2>4 DEF RecordInv, Combined
  <2> QED BY <1>1, <1>4, <2>2, <2>5, CountTypes DEF RecordInv
<1>7. CASE HoldLog
  <2>1. PICK r : r = Head(record_queue.items)
    OBVIOUS
  <2>2. /\ \E gone : refs' = Release(refs, gone)
        /\ content' = Freed(content, refs')
        /\ record_queue.items # <<>> /\ record_queue' = Taken(record_queue)
        /\ telemetry_queue' = telemetry_queue /\ log_message' \in {r, None}
    BY <1>7, <2>1 DEF HoldLog
  <2>3. r \in Rec
    BY <1>4, <2>1, <2>2
  <2> QED BY <1>1, <1>4, <2>2, <2>3, CountTypes DEF RecordInv
<1>8. CASE ArchiveDone \/ callback_server_connect
  BY <1>2, <1>8 DEF ArchiveDone, callback_server_connect
<1>9. CASE callback_client_connect
  <2>1. RefsAfterClone \in [Rec -> Nat]
    BY <1>1 DEF RefsAfterClone, RecordInv
  <2>2. refs' \in {refs, RefsAfterClone}
    BY <1>9 DEF callback_client_connect
  <2>3. UNCHANGED <<content, record_queue, telemetry_queue, log_message>>
    BY <1>9 DEF callback_client_connect
  <2> QED BY <1>1, <1>3, <2>1, <2>2, <2>3 DEF RecordInv
<1>10. ASSUME NEW k \in Conns, ReceiveRecord(k) PROVE RecordInv'
  <2>1. UNCHANGED <<log_message, archived>>
    BY <1>10 DEF ReceiveRecord
  <2>2. FreeRecs \subseteq Rec
    BY DEF FreeRecs
  <2> QED BY <1>1, <1>2, <1>10, <2>1, <2>2, ReceivedRecord, QueueRecordTypes DEF records
<1>11. ASSUME NEW k \in Conns, \/ ReceivePiece(k) \/ SendReply(k) \/ ReceiveNothing(k)
                               \/ callback_server_closed(k) \/ callback_server_can_send(k)
                               \/ ClientDrained(k)
       PROVE  RecordInv'
  BY <1>2, <1>11 DEF ReceivePiece, SendReply, ReceiveNothing, callback_server_closed,
                     callback_server_can_send, ClientDrained
<1>12. ASSUME NEW k \in Conns, add_client_record(k) PROVE RecordInv'
  <2>1. PICK r, q : /\ r = Last(record_queue.items)
                    /\ q = client[k].queue
    OBVIOUS
  <2>2. r \in Rec
    BY <1>12, <2>1, LastReceived DEF add_client_record
  <2>3. RefsAfterPut(refs, q, Depth, r) \in [Rec -> Nat]
    BY <1>1, <2>2, CountTypes DEF RecordInv
  <2>4. \/ refs' = RefsAfterPut(refs, q, Depth, r)
        \/ \E gone : refs' = Release(RefsAfterPut(refs, q, Depth, r), gone)
    BY <1>12, <2>1 DEF add_client_record, ClientClosed
  <2>5. refs' \in [Rec -> Nat]
    BY <2>3, <2>4, CountTypes
  <2> QED BY <1>3, <1>12, <2>5 DEF add_client_record
<1>13. ASSUME NEW k \in Conns, RetireOldClient(k) PROVE RecordInv'
  <2>1. refs' = refs \/ \E gone : refs' = Release(refs, gone)
    BY <1>13 DEF RetireOldClient, ClientClosed
  <2>2. refs' \in [Rec -> Nat]
    BY <1>1, <2>1, CountTypes, SMTT(30) DEF RecordInv
  <2> QED BY <1>3, <1>13, <2>2 DEF RetireOldClient
<1>14. ASSUME NEW k \in Conns, callback_client_can_send(k) PROVE RecordInv'
  <2>1. \/ UNCHANGED <<content, refs>>
        \/ \E gone : refs' = Release(refs, gone) /\ content' = Freed(content, refs')
    BY <1>14 DEF callback_client_can_send
  <2>2. refs' \in [Rec -> Nat]
    BY <1>1, <2>1, CountTypes, SMTT(30) DEF RecordInv
  <2> QED BY <1>3, <1>14, <2>1, <2>2 DEF callback_client_can_send
<1>15. CASE LoopStep \/ SelectReturns \/ Sigterm \/ Killed \/ PeerStep \/ UNCHANGED vars
  BY <1>2, <1>15, LoopLeaves, PeersLeave DEF vars
<1>16. CASE Restart
  <2>1. <<>> \in Seq(Message)
    BY EmptySeq
  <2>2. EmptyQueue \in QueueOf(Rec) /\ EmptyQueue.size <= Depth
    BY EmptyQueueFacts, BufferAssumption
  <2> QED BY <1>16, <2>1, <2>2 DEF Restart, RecordInv
<1>17. CASE CallbackStep
  BY <1>5, <1>6, <1>7, <1>8, <1>9, <1>10, <1>11, <1>12, <1>13, <1>14, <1>17
     DEF CallbackStep, callback_archive
<1> QED BY <1>15, <1>16, <1>17 DEF Next, ArchdStep

LEMMA LocalStep == OpenInv /\ TypeInv /\ [Next]_vars => LocalInv'
<1> SUFFICES ASSUME OpenInv, TypeInv, [Next]_vars PROVE LocalInv'
  OBVIOUS
<1>1. LocalInv
  BY DEF TypeInv
<1>2. CASE UNCHANGED <<okay, reply, next, awaiting>>
  BY <1>1, <1>2 DEF LocalInv
<1>3. CASE callback_archive \/ callback_server_connect \/ callback_client_connect
  BY <1>2, <1>3 DEF callback_archive, ArchiveData, CombineLog, HoldLog, ArchiveDone,
                    callback_server_connect, callback_client_connect, locals, feeders
<1>4. ASSUME NEW k \in Conns, ReceivePiece(k) \/ ReceiveNothing(k) \/ callback_server_closed(k)
      PROVE  LocalInv'
  <2>1. okay' = FALSE /\ reply' = reply /\ UNCHANGED feeders
    BY <1>4 DEF ReceivePiece, ReceiveNothing, callback_server_closed
  <2> QED BY <1>1, <2>1 DEF LocalInv, feeders
<1>5. ASSUME NEW k \in Conns, ReceiveRecord(k) PROVE LocalInv'
  <2>1. reply' \in {1, 2}
    BY <1>5, ReceivedRecord
  <2>2. okay' \in BOOLEAN
    BY <1>1, <1>5, Zenon DEF ReceiveRecord, LocalInv
  <2>3. UNCHANGED feeders
    BY <1>5 DEF ReceiveRecord
  <2> QED BY <1>1, <2>1, <2>2, <2>3 DEF LocalInv, feeders
<1>6. ASSUME NEW k \in Conns, SendReply(k) PROVE LocalInv'
  BY <1>1, <1>6 DEF SendReply, LocalInv, feeders
<1>7. ASSUME NEW k \in Conns, \/ callback_server_can_send(k) \/ add_client_record(k)
                              \/ RetireOldClient(k) \/ callback_client_can_send(k) \/ ClientDrained(k)
      PROVE  LocalInv'
  BY <1>2, <1>7 DEF callback_server_can_send, add_client_record, RetireOldClient,
                    callback_client_can_send, ClientDrained, locals, feeders
<1>8. CASE LoopStep \/ SelectReturns \/ Sigterm \/ Killed \/ UNCHANGED vars
  BY <1>2, <1>8, LoopLeaves DEF feeders, vars, locals
<1>9. CASE Restart
  BY <1>1, <1>9 DEF Restart, LocalInv, feeders
<1>10. CASE PeerStep
  <2>1. UNCHANGED <<okay, reply>>
    BY <1>10, PeersLeave DEF locals
  <2>2. ASSUME NEW f \in Feeder, SendRecord(f) \/ GetReply(f) PROVE LocalInv'
    <3>1. next[f] \in Nat \ {0} /\ next[f] + 1 \in Nat \ {0}
      BY <1>1 DEF LocalInv
    <3>2. next' \in {next, [next EXCEPT ![f] = @ + 1]}
      BY <2>2 DEF SendRecord, GetReply
    <3>3. next' \in [Feeder -> Nat \ {0}]
      BY <1>1, <3>1, <3>2 DEF LocalInv
    <3>4. awaiting' \in {awaiting, [awaiting EXCEPT ![f] = TRUE], [awaiting EXCEPT ![f] = FALSE]}
      BY <2>2 DEF SendRecord, GetReply
    <3>5. awaiting' \in [Feeder -> BOOLEAN]
      BY <1>1, <3>4 DEF LocalInv
    <3> QED BY <1>1, <2>1, <3>3, <3>5 DEF LocalInv
  <2>3. ASSUME NEW p \in Peer, HangUp(p) \/ ConnectionLost(p) PROVE LocalInv'
    <3>1. next' = next
      BY <2>3 DEF HangUp, ConnectionLost
    <3>2. awaiting' \in {awaiting, [awaiting EXCEPT ![p] = FALSE]}
      BY <2>3 DEF HangUp, ConnectionLost
    <3>3. awaiting' \in [Feeder -> BOOLEAN]
      BY <1>1, <3>2 DEF LocalInv
    <3> QED BY <1>1, <2>1, <3>1, <3>3 DEF LocalInv
  <2>4. ASSUME NEW p, Connect(p) \/ ClientReads(p) \/ Elapse(p) PROVE LocalInv'
    BY <1>2, <2>1, <2>4 DEF Connect, ClientReads, Elapse, feeders
  <2> QED BY <1>10, <2>2, <2>3, <2>4 DEF PeerStep
<1>11. CASE CallbackStep
  BY <1>3, <1>4, <1>5, <1>6, <1>7, <1>11 DEF CallbackStep
<1> QED BY <1>8, <1>9, <1>10, <1>11 DEF Next, ArchdStep

LEMMA FanStep == LoopInv /\ OpenInv /\ TypeInv /\ [Next]_vars => FanInv'
<1> SUFFICES ASSUME LoopInv, OpenInv, TypeInv, [Next]_vars PROVE FanInv'
  OBVIOUS
<1>1. /\ phase \notin {"read", "timeout", "returned", "null_read", "killed"} => fan = {}
      /\ phase = "read" /\ fan # {} =>
            running \in server_map /\ reply > 0 /\ record_queue.items # <<>>
  BY DEF TypeInv, FanInv, Pcomm!Ended
<1>2. server_map \subseteq Conns /\ NoFd \notin Conns /\ ServerSocket \notin Conns
      /\ ClientSocket \notin Conns
  BY FdAssumption DEF OpenInv, AllFds
<1>3. ASSUME /\ phase' \notin {"read", "timeout", "returned", "null_read", "killed"} => fan' = {}
             /\ phase' = "read" /\ fan' # {} =>
                  running' \in server_map' /\ reply' > 0 /\ record_queue'.items # <<>>
      PROVE  FanInv'
  BY <1>3 DEF FanInv, Pcomm!Ended
<1> DEFINE Clear == fan' = {}
<1>4. CASE Clear
  BY <1>3, <1>4
<1>5. CASE callback_archive
  <2>1. fan' = fan /\ (phase = "prepare" \/ (phase = "timeout" /\ fan = {}))
    BY <1>5 DEF callback_archive, ArchiveData, CombineLog, HoldLog, ArchiveDone, Archiving, locals
  <2> QED BY <1>1, <1>4, <2>1
<1>6. CASE callback_server_connect \/ callback_client_connect
  <2>1. fan' = fan /\ phase = "read" /\ running \in {ServerSocket, ClientSocket}
    BY <1>6 DEF callback_server_connect, callback_client_connect, locals
  <2> QED BY <1>1, <1>2, <1>4, <2>1
<1>7. ASSUME NEW k \in Conns, ReceivePiece(k) \/ ReceiveNothing(k) \/ callback_server_closed(k)
      PROVE  FanInv'
  <2>1. fan' = fan /\ phase = "read" /\ reply = 0
    BY <1>7 DEF ReceivePiece, ReceiveNothing, callback_server_closed, Receiving
  <2> QED BY <1>1, <1>4, <2>1
<1>8. ASSUME NEW k \in Conns, ReceiveRecord(k) PROVE FanInv'
  <2>1. phase' = phase /\ running' = running /\ phase = "read" /\ running = k /\ k \in server_map
        /\ server_map' = server_map
    BY <1>8 DEF ReceiveRecord, Receiving, Pcomm!Continue
  <2>2. CASE \E m \in Message : \E r \in FreeRecs : QueueRecord(m, r)
    <3>1. PICK r \in Rec : record_queue' = Put(record_queue, -1, r)
      BY <2>2 DEF QueueRecord, FreeRecs
    <3>2. record_queue.items \in Seq(Rec) /\ record_queue \in QueueOf(Rec)
      BY DEF TypeInv, RecordInv, QueueOf
    <3>3. record_queue' = [items |-> Append(record_queue.items, r), size |-> record_queue.size + 1]
      BY <3>1 DEF Put, MadeRoom, MustEvict
    <3>4. ToSet(record_queue'.items) = ToSet(record_queue.items) \cup {r}
          /\ record_queue'.items \in Seq(Rec)
      BY <3>2, <3>3, AppendedList
    <3>5. record_queue'.items # <<>>
      BY <3>4, EmptyQueueFacts
    <3>6. fan' = {} \/ reply' = 1
      BY <1>8, ReceivedRecord
    <3> QED BY <1>3, <2>1, <3>5, <3>6
  <2> QED BY <1>4, <1>8, <2>2, ReceivedRecord
<1>9. ASSUME NEW k \in Conns, SendReply(k) PROVE FanInv'
  BY <1>4, <1>9 DEF SendReply
<1>10. ASSUME NEW k \in Conns, \/ callback_server_can_send(k) \/ callback_client_can_send(k)
                               \/ ClientDrained(k)
       PROVE  FanInv'
  <2>1. fan' = fan /\ phase = "write"
    BY <1>10 DEF callback_server_can_send, callback_client_can_send, ClientDrained, locals
  <2> QED BY <1>1, <1>4, <2>1
<1>11. ASSUME NEW k \in Conns, add_client_record(k) \/ RetireOldClient(k) PROVE FanInv'
  <2>1. /\ fan' \subseteq fan /\ phase' = phase /\ running' = running
        /\ UNCHANGED <<server_map, record_queue, reply>>
    BY <1>11 DEF add_client_record, RetireOldClient, Pcomm!Continue
  <2> QED BY <1>1, <1>3, <2>1
<1>12. CASE SelectReturns
  <2>1. phase = "select" /\ fan = {}
    BY <1>1, <1>12 DEF SelectReturns
  <2>2. fan' = fan \/ phase' = "timeout"
    BY <1>12 DEF SelectReturns, Pcomm!SelectTimeout, locals
  <2> QED BY <1>3, <1>4, <2>1, <2>2
<1>13. CASE LoopStep
  <2>1. fan' = fan /\ UNCHANGED <<server_map, record_queue, reply>>
    BY <1>13, LoopLeaves DEF LoopStep, locals, contexts, records
  <2>2. CASE fan = {}
    BY <1>4, <2>1, <2>2
  <2>3. CASE fan # {}
    <3>1. phase \in {"read", "timeout", "returned", "null_read", "killed"}
          /\ (phase = "read" => running # NoFd)
      BY <1>1, <1>2, <2>3
    <3> QED BY <1>13, <3>1 DEF LoopStep, Pcomm!LoopTop, Pcomm!Populate, Pcomm!StartCallback,
                               Pcomm!ReadNullSet, Pcomm!EndPass, Pcomm!InPass, Pcomm!Stream
  <2> QED BY <2>2, <2>3
<1>14. CASE Sigterm \/ Killed
  <2>1. fan' = fan /\ UNCHANGED <<server_map, record_queue, reply>>
    BY <1>14, LoopLeaves DEF Sigterm, Killed, locals, contexts, records
  <2>2. \/ phase' = phase /\ running' = running
        \/ phase = "select"
        \/ phase' = "killed"
    BY <1>14 DEF Sigterm, Killed, Pcomm!Signal, Pcomm!Kill
  <2> QED BY <1>1, <1>3, <2>1, <2>2
<1>15. CASE Restart
  BY <1>4, <1>15 DEF Restart
<1>16. CASE PeerStep \/ UNCHANGED vars
  <2>1. UNCHANGED <<phase, running, fan, reply, server_map, record_queue>>
    BY <1>16, PeersLeave DEF vars, pcomm_vars, contexts, records, locals
  <2> QED BY <1>1, <1>3, <2>1
<1>17. CASE CallbackStep
  BY <1>5, <1>6, <1>7, <1>8, <1>9, <1>10, <1>11, <1>17 DEF CallbackStep
<1> QED BY <1>12, <1>13, <1>14, <1>15, <1>16, <1>17 DEF Next, ArchdStep

LEMMA InitialTypes == Init => TypeInv
<1> SUFFICES ASSUME Init PROVE TypeInv
  OBVIOUS
<1>1. <<>> \in Seq(Message) /\ 0 \in 0..SendRoom
  BY EmptySeq, BufferAssumption
<1>2. NetInv
  BY <1>1 DEF Init, NetInv
<1>3. ContextInv
  BY FreshContexts DEF Init, ContextInv
<1>4. EmptyQueue \in QueueOf(Rec) /\ EmptyQueue.size <= Depth
  BY EmptyQueueFacts, BufferAssumption
<1>5. RecordInv
  BY <1>1, <1>4 DEF Init, RecordInv
<1>6. LocalInv
  <2>1. okay \in BOOLEAN /\ awaiting \in [Feeder -> BOOLEAN]
    BY Zenon DEF Init
  <2>2. reply \in {0, 1, 2} /\ next \in [Feeder -> Nat \ {0}]
    BY DEF Init
  <2> QED BY <2>1, <2>2 DEF LocalInv
<1>7. FanInv
  BY DEF Init, FanInv
<1> QED BY <1>2, <1>3, <1>5, <1>6, <1>7 DEF TypeInv

LEMMA TypeInvariance == Spec => []TypeInv
<1>1. LoopInv /\ OpenInv /\ TypeInv /\ [Next]_vars => TypeInv'
  BY NetStep, ServerStep, ClientStep, RecordStep, LocalStep, FanStep DEF TypeInv, ContextInv
<1> QED BY InitialTypes, <1>1, LoopInvariance, OpenInvariance, PTL DEF Spec

-----------------------------------------------------------------------------
(* Record buffers: every holder of a record owns a reference.              *)

One(b) == IF b THEN 1 ELSE 0

\* The records a client has in its queue or is in the middle of, and who has record r.
Carried(c) == ToSet(c.queue.items) \cup {c.partial}
Having(r) == {k \in client_map : r \in Carried(client[k])}

\* The references of r that somebody owns.
Owned(r) ==
    One(r \in ToSet(record_queue.items)) + One(r \in ToSet(telemetry_queue.items))
      + One(log_message = r) + Cardinality(Having(r))

\* No holder has a record twice; what is in the record queue is not yet held back as a LOG;
\* a client that add_client_record has not come to does not have the record it is to get.
OnceInv ==
    /\ IsInjective(record_queue.items) /\ IsInjective(telemetry_queue.items)
    /\ RelayedOnce
    /\ log_message \notin ToSet(record_queue.items)
    /\ phase = "read" => \A k \in fan : Last(record_queue.items) \notin Carried(client[k])

CountInv ==
    \A r \in Rec : refs[r] >= Owned(r) /\ (Owned(r) > 0 => content[r] # <<>>)

HeldInv == OnceInv /\ CountInv

\* Two sets that differ at most in k.
LEMMA MovedCount ==
    ASSUME NEW A, NEW B, IsFiniteSet(A), IsFiniteSet(B), NEW k, A \ {k} = B \ {k}
    PROVE  Cardinality(B) + One(k \in A) = Cardinality(A) + One(k \in B)
<1>1. Cardinality(A) \in Nat /\ Cardinality(B) \in Nat
  BY FS_CardinalityType
<1>2. CASE k \in A /\ k \notin B
  <2>1. B = A \ {k} /\ Cardinality(A \ {k}) = Cardinality(A) - 1
    BY <1>2, FS_RemoveElement
  <2> QED BY <1>1, <1>2, <2>1 DEF One
<1>3. CASE k \in B /\ k \notin A
  <2>1. A = B \ {k} /\ Cardinality(B \ {k}) = Cardinality(B) - 1
    BY <1>3, FS_RemoveElement
  <2> QED BY <1>1, <1>3, <2>1 DEF One
<1>4. CASE k \in A <=> k \in B
  <2>1. A = B
    BY <1>4
  <2> QED BY <1>1, <1>4, <2>1 DEF One
<1> QED BY <1>2, <1>3, <1>4

LEMMA HavingFinite ==
    ASSUME NEW M \in SUBSET Conns, NEW c, NEW r
    PROVE  /\ IsFiniteSet({k \in M : r \in Carried(c[k])})
           /\ Cardinality({k \in M : r \in Carried(c[k])}) \in Nat
           /\ Cardinality({k \in M : r \in Carried(c[k])}) = 0 <=>
                {k \in M : r \in Carried(c[k])} = {}
<1>1. IsFiniteSet({k \in M : r \in Carried(c[k])})
  BY FdAssumption, FS_Subset
<1> QED BY <1>1, FS_CardinalityType, FS_EmptySet

LEMMA OwnedType == OpenInv => \A r : Owned(r) \in Nat /\ Cardinality(Having(r)) \in Nat
<1> SUFFICES ASSUME OpenInv, NEW r PROVE Owned(r) \in Nat /\ Cardinality(Having(r)) \in Nat
  OBVIOUS
<1>1. Cardinality(Having(r)) \in Nat
  BY HavingFinite DEF OpenInv, Having
<1> QED BY <1>1 DEF Owned, One

LEMMA OwnedTypeNext == OpenInv' => \A r : Owned(r)' \in Nat /\ Cardinality(Having(r)') \in Nat
<1> SUFFICES ASSUME OpenInv', NEW r PROVE Owned(r)' \in Nat /\ Cardinality(Having(r)') \in Nat
  OBVIOUS
<1>1. Cardinality(Having(r)') \in Nat
  BY HavingFinite DEF OpenInv, Having
<1> QED BY <1>1 DEF Owned, One

\* A buffer nobody owns a reference of is with nobody.
LEMMA NotOwned ==
    ASSUME OpenInv, NEW r, Owned(r) = 0
    PROVE  /\ r \notin ToSet(record_queue.items) /\ r \notin ToSet(telemetry_queue.items)
           /\ r # log_message /\ Having(r) = {}
<1>1. /\ Cardinality(Having(r)) \in Nat
      /\ Cardinality(Having(r)) = 0 <=> Having(r) = {}
  BY HavingFinite DEF OpenInv, Having
<1>2. PICK a, b, l : /\ a = One(r \in ToSet(record_queue.items))
                     /\ b = One(r \in ToSet(telemetry_queue.items))
                     /\ l = One(log_message = r)
  OBVIOUS
<1>3. a \in {0, 1} /\ b \in {0, 1} /\ l \in {0, 1}
  BY <1>2 DEF One
<1>4. a + b + l + Cardinality(Having(r)) = 0
  BY <1>2 DEF Owned
<1>5. a = 0 /\ b = 0 /\ l = 0 /\ Cardinality(Having(r)) = 0
  BY <1>1, <1>3, <1>4
<1> QED BY <1>1, <1>2, <1>5 DEF One

\* A step after which nobody has more than was counted, and a buffer somebody had already
\* or that was just filled is given back only when its count is zero.
LEMMA KeptCount ==
    ASSUME TypeInv, CountInv, OpenInv', NEW r \in Rec, NEW c,
           content' = Freed(c, refs'), refs'[r] \in Nat, refs'[r] >= Owned(r)',
           Owned(r)' > 0 => c[r] # <<>>
    PROVE  refs'[r] >= Owned(r)' /\ (Owned(r)' > 0 => content'[r] # <<>>)
<1>1. content'[r] = IF refs[r] > 0 /\ refs'[r] = 0 THEN <<>> ELSE c[r]
  BY DEF Freed
<1> QED BY <1>1, OwnedTypeNext

\* Steps of callback_archive: the record leaves the record queue.
LEMMA TakenCount ==
    ASSUME OpenInv, TypeInv, OnceInv, record_queue.items # <<>>
    PROVE  /\ Head(record_queue.items) \in Rec
           /\ Head(record_queue.items) \in ToSet(record_queue.items)
           /\ IsInjective(Taken(record_queue).items)
           /\ ToSet(Taken(record_queue).items) =
                ToSet(record_queue.items) \ {Head(record_queue.items)}
BY TakenFacts DEF TypeInv, RecordInv, OnceInv

LEMMA ReleasedCount ==
    ASSUME NEW rc \in [Rec -> Nat], NEW gone, NEW r \in Rec
    PROVE  Release(rc, gone)[r] = IF r \in gone /\ rc[r] > 0 THEN rc[r] - 1 ELSE rc[r]
BY DEF Release

LEMMA HeldCount ==
    ASSUME NEW rc \in [Rec -> Nat], NEW r \in Rec, NEW x \in Rec
    PROVE  Hold(rc, x)[r] = IF r = x THEN rc[r] + 1 ELSE rc[r]
BY DEF Hold

\* Numbers of owners before and after a step that leaves the clients alone.
LEMMA SameHaving ==
    ASSUME UNCHANGED <<client_map, client>>, NEW r PROVE Having(r)' = Having(r)
BY DEF Having

LEMMA ArchiveDataHeld ==
    ASSUME OpenInv, OpenInv', TypeInv, HeldInv, ArchiveData PROVE CountInv'
<1> SUFFICES ASSUME NEW r \in Rec
             PROVE  refs'[r] >= Owned(r)' /\ (Owned(r)' > 0 => content'[r] # <<>>)
  BY DEF CountInv
<1>1. PICK h : h = Head(record_queue.items)
  OBVIOUS
<1>2. /\ record_queue.items # <<>> /\ record_queue' = Taken(record_queue)
      /\ refs' = Release(refs, {h}) /\ content' = Freed(content, refs')
      /\ UNCHANGED <<client_map, client, telemetry_queue, log_message>>
  BY <1>1 DEF ArchiveData, contexts
<1>3. h \in Rec /\ h \in ToSet(record_queue.items)
      /\ ToSet(record_queue'.items) = ToSet(record_queue.items) \ {h}
  BY <1>1, <1>2, TakenCount DEF HeldInv
<1>4. refs \in [Rec -> Nat] /\ refs[r] \in Nat /\ refs[r] >= Owned(r)
      /\ (Owned(r) > 0 => content[r] # <<>>)
  BY DEF TypeInv, RecordInv, HeldInv, CountInv
<1>5. refs'[r] = IF r = h /\ refs[r] > 0 THEN refs[r] - 1 ELSE refs[r]
  BY <1>2, <1>4, ReleasedCount
<1>6. Having(r)' = Having(r) /\ Cardinality(Having(r)) \in Nat
  BY <1>2, SameHaving, OwnedType
<1>7. Owned(r)' = IF r = h THEN Owned(r) - 1 ELSE Owned(r)
  BY <1>2, <1>3, <1>6 DEF Owned, One
<1>8. Owned(r) \in Nat /\ Owned(r)' \in Nat
  BY OwnedType, OwnedTypeNext
<1>9. refs'[r] \in Nat /\ refs'[r] >= Owned(r)' /\ (Owned(r)' > 0 => content[r] # <<>>)
  BY <1>4, <1>5, <1>7, <1>8
<1> QED BY <1>2, <1>9, KeptCount DEF HeldInv

LEMMA CombineLogHeld ==
    ASSUME OpenInv, OpenInv', TypeInv, HeldInv, CombineLog PROVE CountInv'
<1> SUFFICES ASSUME NEW r \in Rec
             PROVE  refs'[r] >= Owned(r)' /\ (Owned(r)' > 0 => content'[r] # <<>>)
  BY DEF CountInv
<1>1. PICK h : h = Head(record_queue.items)
  OBVIOUS
<1>2. /\ record_queue.items # <<>> /\ record_queue' = Taken(record_queue)
      /\ refs' = Release(refs, {h}) /\ content' = Freed(Combined(h), refs')
      /\ UNCHANGED <<client_map, client, telemetry_queue, log_message>>
      /\ log_message # None
  BY <1>1 DEF CombineLog, Combines, contexts
<1>3. h \in Rec /\ h \in ToSet(record_queue.items)
      /\ ToSet(record_queue'.items) = ToSet(record_queue.items) \ {h}
  BY <1>1, <1>2, TakenCount DEF HeldInv
<1>4. refs \in [Rec -> Nat] /\ refs[r] \in Nat /\ refs[r] >= Owned(r)
      /\ (Owned(r) > 0 => content[r] # <<>>)
  BY DEF TypeInv, RecordInv, HeldInv, CountInv
<1>5. refs'[r] = IF r = h /\ refs[r] > 0 THEN refs[r] - 1 ELSE refs[r]
  BY <1>2, <1>4, ReleasedCount
<1>6. Having(r)' = Having(r) /\ Cardinality(Having(r)) \in Nat
  BY <1>2, SameHaving, OwnedType
<1>7. Owned(r)' = IF r = h THEN Owned(r) - 1 ELSE Owned(r)
  BY <1>2, <1>3, <1>6 DEF Owned, One
<1>8. Owned(r) \in Nat /\ Owned(r)' \in Nat
  BY OwnedType, OwnedTypeNext
<1>9. content[r] # <<>> => Combined(h)[r] # <<>>
  <2>1. content \in [Rec -> Seq(Message)] /\ log_message \in Rec
    BY <1>2 DEF TypeInv, RecordInv
  <2>2. PICK a, b : a = content[log_message] /\ b = content[h]
    OBVIOUS
  <2>3. a \in Seq(Message) /\ b \in Seq(Message)
    BY <1>3, <2>1, <2>2
  <2>4. Len(a \o b) = Len(a) + Len(b) /\ a \o b \in Seq(Message)
    BY <2>3, ConcatProperties
  <2>5. a # <<>> => a \o b # <<>>
    <3>1. Len(a) \in Nat /\ Len(b) \in Nat /\ (a # <<>> => Len(a) # 0) /\ Len(<<>>) = 0
      BY <2>3, SetOfList, EmptySeq
    <3>2. a # <<>> => Len(a \o b) # 0
      BY <2>4, <3>1
    <3> QED BY <3>1, <3>2
  <2>6. Combined(h) = [content EXCEPT ![log_message] = a \o b]
    BY <2>2 DEF Combined
  <2> QED BY <2>1, <2>2, <2>5, <2>6
<1>10. refs'[r] \in Nat /\ refs'[r] >= Owned(r)' /\ (Owned(r)' > 0 => content[r] # <<>>)
  BY <1>4, <1>5, <1>7, <1>8
<1> QED BY <1>2, <1>9, <1>10, KeptCount DEF HeldInv

LEMMA HoldLogHeld ==
    ASSUME OpenInv, OpenInv', TypeInv, HeldInv, HoldLog PROVE CountInv'
<1> SUFFICES ASSUME NEW r \in Rec
             PROVE  refs'[r] >= Owned(r)' /\ (Owned(r)' > 0 => content'[r] # <<>>)
  BY DEF CountInv
<1>1. PICK h : h = Head(record_queue.items)
  OBVIOUS
<1>2. PICK late \in BOOLEAN :
        /\ log_message' = IF late THEN None ELSE h
        /\ refs' = Release(refs, {log_message} \cup (IF late THEN {h} ELSE {}))
  BY <1>1 DEF HoldLog
<1>3. /\ record_queue.items # <<>> /\ record_queue' = Taken(record_queue)
      /\ content' = Freed(content, refs')
      /\ UNCHANGED <<client_map, client, telemetry_queue>>
  BY <1>1 DEF HoldLog, contexts
<1>4. h \in Rec /\ h \in ToSet(record_queue.items) /\ h # log_message /\ None \notin Rec
      /\ ToSet(record_queue'.items) = ToSet(record_queue.items) \ {h}
  BY <1>1, <1>3, TakenCount, BufferAssumption DEF HeldInv, OnceInv
<1>5. refs \in [Rec -> Nat] /\ refs[r] \in Nat /\ refs[r] >= Owned(r)
      /\ (Owned(r) > 0 => content[r] # <<>>)
  BY DEF TypeInv, RecordInv, HeldInv, CountInv
<1>6. refs'[r] = IF (r = log_message \/ (late /\ r = h)) /\ refs[r] > 0 THEN refs[r] - 1 ELSE refs[r]
  BY <1>2, <1>5, ReleasedCount
<1>7. Having(r)' = Having(r) /\ Cardinality(Having(r)) \in Nat
  BY <1>3, SameHaving, OwnedType
<1>8. Owned(r)' = IF r = log_message \/ (late /\ r = h) THEN Owned(r) - 1 ELSE Owned(r)
  BY <1>2, <1>3, <1>4, <1>7 DEF Owned, One
<1>9. Owned(r) \in Nat /\ Owned(r)' \in Nat
  BY OwnedType, OwnedTypeNext
<1>10. refs'[r] \in Nat /\ refs'[r] >= Owned(r)' /\ (Owned(r)' > 0 => content[r] # <<>>)
  BY <1>5, <1>6, <1>8, <1>9
<1> QED BY <1>3, <1>10, KeptCount DEF HeldInv

\* The counts after prioqueue_add.
LEMMA PutCount ==
    ASSUME NEW rc \in [Rec -> Nat], NEW q, NEW cap, NEW x \in Rec, NEW r \in Rec,
           x \notin Evicted(q, cap)
    PROVE  RefsAfterPut(rc, q, cap, x)[r] =
             IF r = x THEN rc[r] + 1
             ELSE IF r \in Evicted(q, cap) /\ rc[r] > 0 THEN rc[r] - 1 ELSE rc[r]
<1>1. PICK g : g = Release(rc, Evicted(q, cap))
  OBVIOUS
<1>2. g \in [Rec -> Nat]
  BY <1>1, CountTypes
<1>3. g[r] = IF r \in Evicted(q, cap) /\ rc[r] > 0 THEN rc[r] - 1 ELSE rc[r]
  BY <1>1, ReleasedCount
<1>4. Hold(g, x)[r] = IF r = x THEN g[r] + 1 ELSE g[r]
  BY <1>2, HeldCount
<1> QED BY <1>1, <1>3, <1>4 DEF RefsAfterPut

\* The record just received is in a buffer that was with nobody.
LEMMA ReceivedIsNew ==
    ASSUME OpenInv, TypeInv, HeldInv, NEW n \in FreeRecs
    PROVE  /\ n \in Rec /\ refs[n] = 0 /\ Owned(n) = 0
           /\ n \notin ToSet(record_queue.items) /\ n \notin ToSet(telemetry_queue.items)
           /\ n # log_message /\ Having(n) = {}
<1>1. n \in Rec /\ refs[n] = 0
  BY DEF FreeRecs
<1>2. Owned(n) = 0
  BY <1>1, OwnedType DEF HeldInv, CountInv
<1> QED BY <1>1, <1>2, NotOwned

\* What QueueRecord makes of the two queues.
LEMMA QueuedFacts ==
    ASSUME OpenInv, TypeInv, HeldInv, NEW m, NEW n \in FreeRecs, QueueRecord(m, n)
    PROVE  /\ IsInjective(record_queue'.items) /\ IsInjective(telemetry_queue'.items)
           /\ ToSet(record_queue'.items) = ToSet(record_queue.items) \cup {n}
           /\ Last(record_queue'.items) = n
           /\ ToSet(telemetry_queue'.items) =
                IF Depth = 0 THEN ToSet(telemetry_queue.items)
                ELSE (ToSet(telemetry_queue.items) \ Evicted(telemetry_queue, Depth)) \cup {n}
           /\ Evicted(telemetry_queue, Depth) \subseteq ToSet(telemetry_queue.items)
<1>1. /\ n \in Rec /\ n \notin ToSet(record_queue.items) /\ n \notin ToSet(telemetry_queue.items)
  BY ReceivedIsNew
<1>2. /\ record_queue \in QueueOf(Rec) /\ telemetry_queue \in QueueOf(Rec)
      /\ IsInjective(record_queue.items) /\ IsInjective(telemetry_queue.items)
  BY DEF TypeInv, RecordInv, HeldInv, OnceInv
<1>3. record_queue' = [items |-> Append(record_queue.items, n), size |-> record_queue.size + 1]
  BY DEF QueueRecord, Put, MadeRoom, MustEvict
<1>4. record_queue.items \in Seq(Rec)
  BY <1>2 DEF QueueOf
<1>5. /\ IsInjective(record_queue'.items)
      /\ ToSet(record_queue'.items) = ToSet(record_queue.items) \cup {n}
  BY <1>1, <1>2, <1>3, <1>4, AppendedList
<1>6. Last(record_queue'.items) = n
  <2>1. record_queue'.items = Append(record_queue.items, n)
    BY <1>3
  <2>2. Len(record_queue'.items) = Len(record_queue.items) + 1
        /\ Append(record_queue.items, n)[Len(record_queue.items) + 1] = n
    BY <1>1, <1>4, <2>1, AppendProperties
  <2> QED BY <2>1, <2>2 DEF Last
<1>7. Depth \in Nat /\ Depth \in Nat \cup {-1}
  BY BufferAssumption
<1>8. Evicted(telemetry_queue, Depth) \subseteq ToSet(telemetry_queue.items)
  BY <1>2, <1>7, RoomFacts
<1>9. CASE Depth = 0
  <2>1. telemetry_queue' = telemetry_queue
    BY <1>9 DEF QueueRecord
  <2> QED BY <1>2, <1>5, <1>6, <1>8, <1>9, <2>1
<1>10. CASE Depth # 0
  <2>1. telemetry_queue' = Put(telemetry_queue, Depth, n)
    BY <1>10 DEF QueueRecord
  <2>2. PICK q : q = telemetry_queue
    OBVIOUS
  <2>3. Depth # 0 /\ IsInjective(q.items) =>
          /\ ToSet(Put(q, Depth, n).items) = (ToSet(q.items) \ Evicted(q, Depth)) \cup {n}
          /\ n \notin ToSet(q.items) => IsInjective(Put(q, Depth, n).items)
    <3>1. q \in QueueOf(Rec) /\ Depth \in Nat \cup {-1} /\ n \in Rec
      BY <1>1, <1>2, <1>7, <2>2
    <3> QED BY <3>1, PutFacts
  <2>4. /\ IsInjective(telemetry_queue'.items)
        /\ ToSet(telemetry_queue'.items) =
             (ToSet(telemetry_queue.items) \ Evicted(telemetry_queue, Depth)) \cup {n}
    BY <1>1, <1>2, <1>10, <2>1, <2>2, <2>3
  <2> QED BY <1>5, <1>6, <1>8, <1>10, <2>4
<1> QED BY <1>9, <1>10

LEMMA QueueRecordHeld ==
    ASSUME OpenInv, OpenInv', TypeInv, HeldInv, NEW m, NEW n \in FreeRecs, QueueRecord(m, n),
           UNCHANGED <<client_map, client, log_message>>
    PROVE  CountInv'
<1> SUFFICES ASSUME NEW r \in Rec
             PROVE  refs'[r] >= Owned(r)' /\ (Owned(r)' > 0 => content'[r] # <<>>)
  BY DEF CountInv
<1>1. PICK e : e = Evicted(telemetry_queue, Depth)
  OBVIOUS
<1>2. /\ n \in Rec /\ refs[n] = 0 /\ Owned(n) = 0
      /\ n \notin ToSet(record_queue.items) /\ n \notin ToSet(telemetry_queue.items)
      /\ n # log_message /\ Having(n) = {}
  BY ReceivedIsNew
<1>3. /\ ToSet(record_queue'.items) = ToSet(record_queue.items) \cup {n}
      /\ ToSet(telemetry_queue'.items) =
           IF Depth = 0 THEN ToSet(telemetry_queue.items)
           ELSE (ToSet(telemetry_queue.items) \ e) \cup {n}
      /\ e \subseteq ToSet(telemetry_queue.items)
  BY <1>1, QueuedFacts
<1>4. /\ refs \in [Rec -> Nat] /\ refs[r] \in Nat /\ refs[r] >= Owned(r)
      /\ (Owned(r) > 0 => content[r] # <<>>)
      /\ content \in [Rec -> Seq(Message)]
  BY DEF TypeInv, RecordInv, HeldInv, CountInv
<1>5. PICK g : g = Hold(refs, n)
  OBVIOUS
<1>6. g \in [Rec -> Nat] /\ g[r] = IF r = n THEN 1 ELSE refs[r]
  <2>1. g = [refs EXCEPT ![n] = 1]
    BY <1>2, <1>4, <1>5 DEF Hold
  <2> QED BY <1>2, <1>4, <2>1
<1>7. refs'[r] = IF r = n THEN (IF Depth = 0 THEN 1 ELSE 2)
                 ELSE IF Depth # 0 /\ r \in e /\ refs[r] > 0 THEN refs[r] - 1 ELSE refs[r]
  <2>1. CASE Depth = 0
    BY <1>5, <1>6, <2>1 DEF QueueRecord
  <2>2. CASE Depth # 0
    <3>1. refs' = RefsAfterPut(g, telemetry_queue, Depth, n)
      BY <1>5, <2>2 DEF QueueRecord
    <3>2. n \notin e
      BY <1>2, <1>3
    <3>3. refs'[r] = IF r = n THEN g[r] + 1 ELSE IF r \in e /\ g[r] > 0 THEN g[r] - 1 ELSE g[r]
      BY <1>1, <1>2, <1>6, <3>1, <3>2, PutCount
    <3> QED BY <1>6, <2>2, <3>3
  <2> QED BY <2>1, <2>2
<1>8. Having(r)' = Having(r) /\ Cardinality(Having(r)) \in Nat
  BY SameHaving, OwnedType
<1>9. Owned(r)' = IF r = n THEN (IF Depth = 0 THEN 1 ELSE 2)
                  ELSE IF Depth # 0 /\ r \in e THEN Owned(r) - 1 ELSE Owned(r)
  <2>1. CASE r = n
    <3>1. Cardinality(Having(r)) = 0
      BY <1>2, <2>1, FS_EmptySet
    <3> QED BY <1>2, <1>3, <1>8, <2>1, <3>1 DEF Owned, One
  <2>2. CASE r # n
    BY <1>3, <1>8, <2>2 DEF Owned, One
  <2> QED BY <2>1, <2>2
<1>10. Owned(r) \in Nat /\ Owned(r)' \in Nat
  BY OwnedType, OwnedTypeNext
<1>11. PICK c : c = [content EXCEPT ![n] = <<m>>]
  OBVIOUS
<1>12. content' = Freed(c, refs')
  BY <1>11 DEF QueueRecord
<1>13. c[r] = IF r = n THEN <<m>> ELSE content[r]
  BY <1>4, <1>11
<1>14. refs'[r] \in Nat /\ refs'[r] >= Owned(r)' /\ (Owned(r)' > 0 /\ r # n => content[r] # <<>>)
  BY <1>4, <1>7, <1>9, <1>10
<1>15. <<m>> # <<>>
  OBVIOUS
<1>16. Owned(r)' > 0 => c[r] # <<>>
  BY <1>13, <1>14, <1>15
<1> QED BY <1>12, <1>14, <1>16, KeptCount DEF HeldInv

\* A step that changes client k at most.
LEMMA MovedHaving ==
    ASSUME OpenInv, OpenInv', NEW k, client_map' \ {k} = client_map \ {k},
           \A j \in client_map \ {k} : client'[j] = client[j], NEW r
    PROVE  Cardinality(Having(r)') + One(k \in Having(r)) =
             Cardinality(Having(r)) + One(k \in Having(r)')
<1>1. PICK A, B : A = Having(r) /\ B = Having(r)'
  OBVIOUS
<1>2. IsFiniteSet(A)
  BY <1>1, HavingFinite DEF OpenInv, Having
<1>3. IsFiniteSet(B)
  BY <1>1, HavingFinite DEF OpenInv, Having
<1>4. A \ {k} = B \ {k}
  BY <1>1 DEF Having
<1> QED BY <1>1, <1>2, <1>3, <1>4, MovedCount

\* The client that connects gets a reference of every record in the telemetry queue.
LEMMA ClientConnectHeld ==
    ASSUME OpenInv, OpenInv', TypeInv, HeldInv, callback_client_connect PROVE CountInv'
<1> SUFFICES ASSUME NEW r \in Rec
             PROVE  refs'[r] >= Owned(r)' /\ (Owned(r)' > 0 => content'[r] # <<>>)
  BY DEF CountInv
<1>1. /\ refs \in [Rec -> Nat] /\ refs[r] \in Nat /\ refs[r] >= Owned(r)
      /\ (Owned(r) > 0 => content[r] # <<>>)
  BY DEF TypeInv, RecordInv, HeldInv, CountInv
<1>2. Owned(r) \in Nat /\ Owned(r)' \in Nat /\ Cardinality(Having(r)) \in Nat
      /\ Cardinality(Having(r)') \in Nat
  BY OwnedType, OwnedTypeNext
<1>3. UNCHANGED <<content, record_queue, telemetry_queue, log_message>>
  BY DEF callback_client_connect
<1>4. RefsAfterClone[r] = refs[r] + One(r \in ToSet(telemetry_queue.items))
  BY DEF RefsAfterClone, One
<1>5. ASSUME UNCHANGED <<client_map, client>>, refs' \in {refs, RefsAfterClone}
      PROVE  refs'[r] >= Owned(r)' /\ (Owned(r)' > 0 => content'[r] # <<>>)
  <2>1. Owned(r)' = Owned(r)
    BY <1>3, <1>5, SameHaving DEF Owned
  <2>2. refs'[r] \in Nat /\ refs'[r] >= refs[r]
    BY <1>1, <1>4, <1>5 DEF One
  <2>3. refs'[r] >= Owned(r)
    BY <1>1, <1>2, <2>2
  <2> QED BY <1>1, <1>3, <2>1, <2>3
<1>6. ASSUME Unused # {}, NEW k, k = Min(Unused), refs' = RefsAfterClone,
             client' = [client EXCEPT ![k] = [FreshClient EXCEPT !.queue = Reversed(telemetry_queue)]],
             client_map' \in {client_map, client_map \cup {k}}
      PROVE  refs'[r] >= Owned(r)' /\ (Owned(r)' > 0 => content'[r] # <<>>)
  <2>1. k \in Conns /\ k \notin client_map
    BY <1>6, AcceptedIsNew
  <2>2. client \in [Conns -> ClientContext]
    BY DEF TypeInv, ContextInv
  <2>3. /\ client_map' \ {k} = client_map \ {k}
        /\ \A j \in client_map \ {k} : client'[j] = client[j]
    BY <1>6, <2>1, <2>2 DEF OpenInv
  <2>4. Cardinality(Having(r)') + One(k \in Having(r)) = Cardinality(Having(r)) + One(k \in Having(r)')
    BY <2>3, MovedHaving
  <2>5. k \notin Having(r)
    BY <2>1 DEF Having
  <2>6. k \in Having(r)' => r \in ToSet(telemetry_queue.items)
    <3>1. client'[k] = [FreshClient EXCEPT !.queue = Reversed(telemetry_queue)]
      BY <1>6, <2>1, <2>2
    <3>2. client'[k].queue = Reversed(telemetry_queue) /\ client'[k].partial = None
      BY <3>1 DEF FreshClient
    <3>3. ToSet(Reversed(telemetry_queue).items) = ToSet(telemetry_queue.items)
      BY ReversedFacts DEF TypeInv, RecordInv
    <3> QED BY <3>2, <3>3, BufferAssumption DEF Having, Carried
  <2>7. Cardinality(Having(r)') <= Cardinality(Having(r)) + One(r \in ToSet(telemetry_queue.items))
    BY <1>2, <2>4, <2>5, <2>6 DEF One
  <2>8. Owned(r)' <= Owned(r) + One(r \in ToSet(telemetry_queue.items))
    BY <1>2, <1>3, <2>7 DEF Owned, One
  <2>9. Owned(r)' > 0 => Owned(r) > 0
    <3>1. r \in ToSet(telemetry_queue.items) => Owned(r) > 0
      BY <1>2 DEF Owned, One
    <3> QED BY <1>2, <2>8, <3>1 DEF One
  <2>10. refs'[r] >= Owned(r)'
    BY <1>1, <1>2, <1>4, <1>6, <2>8 DEF One
  <2> QED BY <1>1, <1>3, <2>9, <2>10
<1> QED BY <1>5, <1>6 DEF callback_client_connect

\* What client k has after add_client_record.
LEMMA AddedRecord ==
    ASSUME NEW c \in ClientContext, IsInjective(c.queue.items), c.partial \notin ToSet(c.queue.items),
           NEW n \in Rec, n \notin Carried(c), NEW q, q = Put(c.queue, Depth, n)
    PROVE  /\ IsInjective(q.items) /\ c.partial \notin ToSet(q.items)
           /\ Evicted(c.queue, Depth) \subseteq ToSet(c.queue.items)
           /\ ToSet(q.items) \ {n} = ToSet(c.queue.items) \ Evicted(c.queue, Depth)
           /\ q \in QueueOf(Rec)
<1>1. PICK b : b = c.queue
  OBVIOUS
<1>2. b \in QueueOf(Rec)
  BY <1>1, ClientParts
<1>3. Depth \in Nat \cup {-1}
  BY BufferAssumption
<1>4. Evicted(b, Depth) \subseteq ToSet(b.items)
  BY <1>2, <1>3, RoomFacts
<1>5. n \notin ToSet(b.items) /\ n # c.partial /\ IsInjective(b.items) /\ c.partial \notin ToSet(b.items)
  BY <1>1 DEF Carried
<1>6. CASE Depth = 0
  <2>1. q = b /\ Evicted(b, Depth) = {}
    BY <1>1, <1>6 DEF Put, Evicted, MustEvict
  <2> QED BY <1>1, <1>2, <1>4, <1>5, <2>1
<1>7. CASE Depth # 0
  <2>1. Depth # 0 /\ IsInjective(b.items) =>
          /\ ToSet(Put(b, Depth, n).items) = (ToSet(b.items) \ Evicted(b, Depth)) \cup {n}
          /\ n \notin ToSet(b.items) => IsInjective(Put(b, Depth, n).items)
    BY <1>2, <1>3, PutFacts
  <2>2. Put(b, Depth, n) \in QueueOf(Rec)
    BY <1>2, <1>3, PutFacts
  <2>3. q = Put(b, Depth, n)
    BY <1>1
  <2>4. IsInjective(q.items) /\ ToSet(q.items) = (ToSet(b.items) \ Evicted(b, Depth)) \cup {n}
    BY <1>5, <1>7, <2>1, <2>3
  <2> QED BY <1>1, <1>4, <1>5, <2>2, <2>3, <2>4
<1> QED BY <1>6, <1>7

\* add_client_record: the client's queue holds a reference of the record it gains and gives
\* back that of the record evicted; a client closed gives back those of all it has queued.
LEMMA AddClientRecordHeld ==
    ASSUME OpenInv, OpenInv', TypeInv, TypeInv', HeldInv, NEW k \in Conns, add_client_record(k)
    PROVE  CountInv'
<1> SUFFICES ASSUME NEW r \in Rec
             PROVE  refs'[r] >= Owned(r)' /\ (Owned(r)' > 0 => content'[r] # <<>>)
  BY DEF CountInv
<1>1. PICK n, c, q, e : /\ n = Last(record_queue.items) /\ c = client[k]
                        /\ q = Put(c.queue, Depth, n) /\ e = Evicted(c.queue, Depth)
  OBVIOUS
<1>2. /\ Receiving(running) /\ k \in fan /\ content' = Freed(content, refs')
      /\ UNCHANGED <<record_queue, telemetry_queue, log_message>>
  BY DEF add_client_record
<1>3. k \in client_map /\ n \in Rec /\ n \in ToSet(record_queue.items)
  BY <1>1, <1>2, LastReceived DEF OpenInv
<1>4. /\ refs \in [Rec -> Nat] /\ refs[r] \in Nat /\ refs[r] >= Owned(r)
      /\ (Owned(r) > 0 => content[r] # <<>>) /\ refs'[r] \in Nat
  BY DEF TypeInv, RecordInv, HeldInv, CountInv
<1>5. Owned(r) \in Nat /\ Owned(r)' \in Nat /\ Cardinality(Having(r)) \in Nat
      /\ Cardinality(Having(r)') \in Nat
  BY OwnedType, OwnedTypeNext
<1>6. client \in [Conns -> ClientContext] /\ c \in ClientContext
  BY <1>1 DEF TypeInv, ContextInv
<1>7. /\ IsInjective(c.queue.items) /\ c.partial \notin ToSet(c.queue.items)
      /\ n \notin Carried(c)
  BY <1>1, <1>2, <1>3 DEF HeldInv, OnceInv, RelayedOnce, Receiving
<1>8. /\ c.partial \notin ToSet(q.items)
      /\ e \subseteq ToSet(c.queue.items)
      /\ ToSet(q.items) \ {n} = ToSet(c.queue.items) \ e
      /\ n \notin e
  <2>1. /\ c.partial \notin ToSet(q.items)
        /\ Evicted(c.queue, Depth) \subseteq ToSet(c.queue.items)
        /\ ToSet(q.items) \ {n} = ToSet(c.queue.items) \ Evicted(c.queue, Depth)
    BY <1>1, <1>3, <1>6, <1>7, AddedRecord
  <2>2. n \notin ToSet(c.queue.items)
    BY <1>7 DEF Carried
  <2> QED BY <1>1, <2>1, <2>2
<1>9. PICK g : g = RefsAfterPut(refs, c.queue, Depth, n)
  OBVIOUS
<1>10. g \in [Rec -> Nat]
       /\ g[r] = IF r = n THEN refs[r] + 1 ELSE IF r \in e /\ refs[r] > 0 THEN refs[r] - 1 ELSE refs[r]
  <2>1. n \notin Evicted(c.queue, Depth)
    BY <1>1, <1>8
  <2>2. g[r] = IF r = n THEN refs[r] + 1
               ELSE IF r \in Evicted(c.queue, Depth) /\ refs[r] > 0 THEN refs[r] - 1 ELSE refs[r]
    BY <1>3, <1>4, <1>9, <2>1, PutCount
  <2>3. g \in [Rec -> Nat]
    BY <1>3, <1>4, <1>9, CountTypes
  <2> QED BY <1>1, <2>2, <2>3
<1>11. Cardinality(Having(r)') + One(k \in Having(r)) = Cardinality(Having(r)) + One(k \in Having(r)')
  <2>1. /\ client_map' \ {k} = client_map \ {k}
        /\ \A j \in client_map \ {k} : client'[j] = client[j]
    BY <1>6 DEF add_client_record, ClientClosed, OpenInv
  <2> QED BY <2>1, MovedHaving
<1>12. k \in Having(r) <=> r \in ToSet(c.queue.items) \/ r = c.partial
  BY <1>1, <1>3 DEF Having, Carried
<1>13. ASSUME refs' = Release(g, ToSet(q.items)), client_map' = client_map \ {k}
       PROVE  refs'[r] >= Owned(r)' /\ (Owned(r)' > 0 => Owned(r) > 0)
  <2>1. k \notin Having(r)'
    BY <1>13 DEF Having
  <2>2. refs'[r] = IF r \in ToSet(q.items) /\ g[r] > 0 THEN g[r] - 1 ELSE g[r]
    BY <1>10, <1>13, ReleasedCount
  <2>3. Owned(r)' = IF k \in Having(r) THEN Owned(r) - 1 ELSE Owned(r)
    BY <1>2, <1>5, <1>11, <2>1 DEF Owned, One
  <2>4. r = n => k \notin Having(r)
    BY <1>7, <1>12 DEF Carried
  <2>5. r # n => (r \in ToSet(q.items) <=> r \in ToSet(c.queue.items) /\ r \notin e)
    BY <1>8
  <2>6. refs'[r] >= Owned(r)'
    <3>1. CASE r = n
      BY <1>4, <1>5, <1>10, <2>2, <2>3, <2>4, <3>1
    <3>2. CASE r # n
      BY <1>4, <1>5, <1>8, <1>10, <1>12, <2>2, <2>3, <2>5, <3>2
    <3> QED BY <3>1, <3>2
  <2> QED BY <1>5, <2>3, <2>6
<1>14. ASSUME refs' = g, client_map' = client_map, client' = [client EXCEPT ![k].queue = q]
       PROVE  refs'[r] >= Owned(r)' /\ (Owned(r)' > 0 => Owned(r) > 0)
  <2>1. client'[k].queue = q /\ client'[k].partial = c.partial
    BY <1>1, <1>6, <1>14 DEF ClientContext
  <2>2. k \in Having(r)' <=> r \in ToSet(q.items) \/ r = c.partial
    BY <1>3, <1>14, <2>1 DEF Having, Carried
  <2>3. r = n => Owned(r)' <= Owned(r) + 1 /\ Owned(r) > 0
    BY <1>2, <1>3, <1>5, <1>7, <1>11, <1>12 DEF Owned, One, Carried
  <2>4. r # n => Owned(r)' = IF r \in e THEN Owned(r) - 1 ELSE Owned(r)
    <3>1. ASSUME r # n
          PROVE  /\ r \in e => k \in Having(r) /\ k \notin Having(r)'
                 /\ r \notin e => (k \in Having(r) <=> k \in Having(r)')
      BY <1>7, <1>8, <1>12, <2>2, <3>1
    <3> QED BY <1>2, <1>5, <1>11, <3>1 DEF Owned, One
  <2>5. refs'[r] >= Owned(r)'
    <3>1. CASE r = n
      BY <1>4, <1>5, <1>10, <1>14, <2>3, <3>1
    <3>2. CASE r # n
      BY <1>4, <1>5, <1>10, <1>14, <2>4, <3>2
    <3> QED BY <3>1, <3>2
  <2> QED BY <1>5, <2>3, <2>4, <2>5
<1>15. refs'[r] >= Owned(r)' /\ (Owned(r)' > 0 => Owned(r) > 0)
  <2>1. \/ refs' = Release(g, ToSet(q.items)) /\ client_map' = client_map \ {k}
        \/ refs' = g /\ client_map' = client_map /\ client' = [client EXCEPT ![k].queue = q]
    BY <1>1, <1>9 DEF add_client_record, ClientClosed
  <2> QED BY <1>13, <1>14, <2>1
<1> QED BY <1>2, <1>4, <1>15, KeptCount DEF HeldInv

\* retire_old_client, from the timeout callback.
LEMMA RetireOldClientHeld ==
    ASSUME OpenInv, OpenInv', TypeInv, TypeInv', HeldInv, NEW k \in Conns, RetireOldClient(k)
    PROVE  CountInv'
<1> SUFFICES ASSUME NEW r \in Rec
             PROVE  refs'[r] >= Owned(r)' /\ (Owned(r)' > 0 => content'[r] # <<>>)
  BY DEF CountInv
<1>1. /\ k \in fan /\ content' = Freed(content, refs')
      /\ UNCHANGED <<record_queue, telemetry_queue, log_message>>
  BY DEF RetireOldClient
<1>2. k \in client_map
  BY <1>1 DEF OpenInv
<1>3. /\ refs \in [Rec -> Nat] /\ refs[r] \in Nat /\ refs[r] >= Owned(r)
      /\ (Owned(r) > 0 => content[r] # <<>>) /\ refs'[r] \in Nat
  BY DEF TypeInv, RecordInv, HeldInv, CountInv
<1>4. Owned(r) \in Nat /\ Owned(r)' \in Nat /\ Cardinality(Having(r)) \in Nat
      /\ Cardinality(Having(r)') \in Nat
  BY OwnedType, OwnedTypeNext
<1>5. client \in [Conns -> ClientContext]
  BY DEF TypeInv, ContextInv
<1>6. ASSUME refs' = Release(refs, ToSet(client[k].queue.items)), client_map' = client_map \ {k},
             client' = [client EXCEPT ![k] = FreshClient]
      PROVE  refs'[r] >= Owned(r)' /\ (Owned(r)' > 0 => Owned(r) > 0)
  <2>1. Cardinality(Having(r)') + One(k \in Having(r)) =
          Cardinality(Having(r)) + One(k \in Having(r)')
    <3>1. /\ client_map' \ {k} = client_map \ {k}
          /\ \A j \in client_map \ {k} : client'[j] = client[j]
      BY <1>5, <1>6 DEF OpenInv
    <3> QED BY <3>1, MovedHaving
  <2>2. k \notin Having(r)'
    BY <1>6 DEF Having
  <2>3. refs'[r] = IF r \in ToSet(client[k].queue.items) /\ refs[r] > 0 THEN refs[r] - 1 ELSE refs[r]
    BY <1>3, <1>6, ReleasedCount
  <2>4. r \in ToSet(client[k].queue.items) => k \in Having(r)
    BY <1>2 DEF Having, Carried
  <2>5. Owned(r)' = IF k \in Having(r) THEN Owned(r) - 1 ELSE Owned(r)
    BY <1>1, <1>4, <2>1, <2>2 DEF Owned, One
  <2> QED BY <1>3, <1>4, <2>3, <2>4, <2>5
<1>7. ASSUME UNCHANGED <<refs, client_map, client>>
      PROVE  refs'[r] >= Owned(r)' /\ (Owned(r)' > 0 => Owned(r) > 0)
  <2>1. Owned(r)' = Owned(r)
    BY <1>1, <1>7, SameHaving DEF Owned
  <2> QED BY <1>3, <1>7, <2>1
<1>8. refs'[r] >= Owned(r)' /\ (Owned(r)' > 0 => Owned(r) > 0)
  BY <1>6, <1>7 DEF RetireOldClient, ClientClosed
<1> QED BY <1>1, <1>3, <1>8, KeptCount DEF HeldInv

\* What is left of the client's records once the one at hand has been sent.
LEMMA SentRecord ==
    ASSUME NEW c \in ClientContext, ~NothingToSend(c),
           IsInjective(c.queue.items), c.partial \notin ToSet(c.queue.items)
    PROVE  /\ Current(c) \in Rec /\ Current(c) \in Carried(c)
           /\ IsInjective(WithoutCurrent(c).queue.items)
           /\ WithoutCurrent(c).partial = None
           /\ None \notin ToSet(WithoutCurrent(c).queue.items)
           /\ Current(c) \notin ToSet(WithoutCurrent(c).queue.items)
           /\ ToSet(WithoutCurrent(c).queue.items) \cup {None} =
                (Carried(c) \ {Current(c)}) \cup {None}
<1>1. PICK q : q = c.queue
  OBVIOUS
<1>2. q \in QueueOf(Rec) /\ c.partial \in Rec \cup {None} /\ None \notin Rec
      /\ q.items \in Seq(Rec) /\ ToSet(q.items) \subseteq Rec
  <2>1. q \in QueueOf(Rec) /\ c.partial \in Rec \cup {None} /\ q.items \in Seq(Rec)
    BY <1>1, ClientParts
  <2> QED BY <2>1, SetOfList, BufferAssumption
<1>3. Carried(c) = ToSet(q.items) \cup {c.partial}
  BY <1>1 DEF Carried
<1>4. CASE c.partial # None
  <2>1. Current(c) = c.partial /\ WithoutCurrent(c).queue = q /\ WithoutCurrent(c).partial = None
    BY <1>1, <1>4 DEF Current, WithoutCurrent
  <2> QED BY <1>1, <1>2, <1>3, <1>4, <2>1
<1>5. CASE c.partial = None
  <2>1. Current(c) = Head(q.items) /\ WithoutCurrent(c).queue = Taken(q)
        /\ WithoutCurrent(c).partial = None
    BY <1>1, <1>5 DEF Current, WithoutCurrent
  <2>2. q.items # <<>>
    BY <1>1, <1>5 DEF NothingToSend
  <2>3. /\ Head(q.items) \in Rec /\ Head(q.items) \in ToSet(q.items)
        /\ IsInjective(q.items) => /\ IsInjective(Taken(q).items)
                                   /\ ToSet(Taken(q).items) = ToSet(q.items) \ {Head(q.items)}
    BY <1>2, <2>2, TakenFacts
  <2> QED BY <1>1, <1>2, <1>3, <1>5, <2>1, <2>3
<1> QED BY <1>4, <1>5

LEMMA ClientCanSendHeld ==
    ASSUME OpenInv, OpenInv', TypeInv, TypeInv', HeldInv, NEW k \in Conns,
           callback_client_can_send(k)
    PROVE  CountInv'
<1> SUFFICES ASSUME NEW r \in Rec
             PROVE  refs'[r] >= Owned(r)' /\ (Owned(r)' > 0 => content'[r] # <<>>)
  BY DEF CountInv
<1>1. PICK c, s : c = client[k] /\ s = Current(c)
  OBVIOUS
<1>2. /\ k \in client_map /\ ~NothingToSend(c)
      /\ UNCHANGED <<client_map, record_queue, telemetry_queue, log_message>>
  BY <1>1 DEF callback_client_can_send
<1>3. /\ refs \in [Rec -> Nat] /\ refs[r] \in Nat /\ refs[r] >= Owned(r)
      /\ (Owned(r) > 0 => content[r] # <<>>) /\ refs'[r] \in Nat
  BY DEF TypeInv, RecordInv, HeldInv, CountInv
<1>4. Owned(r) \in Nat /\ Owned(r)' \in Nat /\ Cardinality(Having(r)) \in Nat
      /\ Cardinality(Having(r)') \in Nat
  BY OwnedType, OwnedTypeNext
<1>5. client \in [Conns -> ClientContext] /\ c \in ClientContext
  BY <1>1 DEF TypeInv, ContextInv
<1>6. IsInjective(c.queue.items) /\ c.partial \notin ToSet(c.queue.items)
  BY <1>1, <1>2 DEF HeldInv, OnceInv, RelayedOnce
<1>7. /\ s \in Rec /\ s \in Carried(c) /\ None \notin Rec
      /\ WithoutCurrent(c).partial = None
      /\ ToSet(WithoutCurrent(c).queue.items) \cup {None} = (Carried(c) \ {s}) \cup {None}
  BY <1>1, <1>2, <1>5, <1>6, SentRecord, BufferAssumption
<1>8. k \in Having(r) <=> r \in Carried(c)
  BY <1>1, <1>2 DEF Having
<1>9. Cardinality(Having(r)') + One(k \in Having(r)) = Cardinality(Having(r)) + One(k \in Having(r)')
  <2>1. /\ client_map' \ {k} = client_map \ {k}
        /\ \A j \in client_map \ {k} : client'[j] = client[j]
    BY <1>5 DEF callback_client_can_send, OpenInv
  <2> QED BY <2>1, MovedHaving
<1>10. ASSUME NEW o, client' = [client EXCEPT ![k] = [WithoutCurrent(c) EXCEPT !.partial = s, !.offset = o]],
              UNCHANGED <<content, refs>>
       PROVE  refs'[r] >= Owned(r)' /\ (Owned(r)' > 0 => content'[r] # <<>>)
  <2>1. client'[k].queue = WithoutCurrent(c).queue /\ client'[k].partial = s
    BY <1>5, <1>10 DEF WithoutCurrent
  <2>2. k \in Having(r)' <=> r \in Carried(c)
    BY <1>2, <1>7, <2>1 DEF Having, Carried
  <2>3. Owned(r)' = Owned(r)
    BY <1>2, <1>4, <1>8, <1>9, <2>2 DEF Owned, One
  <2> QED BY <1>3, <1>10, <2>3
<1>11. ASSUME client' = [client EXCEPT ![k] = WithoutCurrent(c)],
              refs' = Release(refs, {s}), content' = Freed(content, refs')
       PROVE  refs'[r] >= Owned(r)' /\ (Owned(r)' > 0 => content'[r] # <<>>)
  <2>1. client'[k] = WithoutCurrent(c)
    BY <1>5, <1>11
  <2>2. k \in Having(r)' <=> r \in Carried(c) /\ r # s
    BY <1>2, <1>7, <2>1 DEF Having, Carried
  <2>3. Owned(r)' = IF r = s THEN Owned(r) - 1 ELSE Owned(r)
    BY <1>2, <1>4, <1>7, <1>8, <1>9, <2>2 DEF Owned, One
  <2>4. refs'[r] = IF r = s /\ refs[r] > 0 THEN refs[r] - 1 ELSE refs[r]
    BY <1>3, <1>11, ReleasedCount
  <2>5. refs'[r] >= Owned(r)' /\ (Owned(r)' > 0 => content[r] # <<>>)
    BY <1>3, <1>4, <2>3, <2>4
  <2> QED BY <1>3, <1>11, <2>5, KeptCount DEF HeldInv
<1> QED BY <1>1, <1>10, <1>11 DEF callback_client_can_send

\* Steps that leave the records and who has them alone.
LEMMA SameCount ==
    ASSUME CountInv, UNCHANGED <<client_map, record_queue, telemetry_queue, log_message, content, refs>>,
           \A k \in client_map : Carried(client'[k]) = Carried(client[k])
    PROVE  CountInv'
<1>1. \A r : Having(r)' = Having(r)
  BY DEF Having
<1>2. \A r : Owned(r)' = Owned(r)
  BY <1>1 DEF Owned
<1> QED BY <1>2 DEF CountInv

\* What the steps of the peers leave of who has which record.
LEMMA PeersKeepRecords ==
    ASSUME OpenInv, TypeInv, PeerStep
    PROVE  /\ UNCHANGED <<client_map, records, phase, fan>>
           /\ \A k \in client_map : /\ client'[k].queue = client[k].queue
                                    /\ client'[k].partial = client[k].partial
                                    /\ client'[k].offset = client[k].offset
<1>1. UNCHANGED <<client_map, records, phase, fan>>
  BY PeersLeave DEF pcomm_vars, locals
<1>2. CASE \E k \in Conns : Elapse(k)
  <2>1. client \in [Conns -> [queue : QueueOf(Rec), partial : Rec \cup {None}, offset : Nat, age : Nat]]
    BY DEF TypeInv, ContextInv, ClientContext
  <2>2. PICK k \in Conns : client' = [client EXCEPT ![k] = [client[k] EXCEPT !.age = @ + 1]]
    BY <1>2, <2>1 DEF Elapse
  <2>3. client_map \subseteq Conns
    BY DEF OpenInv
  <2> QED BY <1>1, <2>1, <2>2, <2>3
<1>3. CASE client' = client
  BY <1>1, <1>3
<1> QED BY <1>2, <1>3 DEF PeerStep, Connect, HangUp, ConnectionLost, SendRecord, GetReply, ClientReads, contexts

LEMMA CountStep ==
    ASSUME OpenInv, OpenInv', TypeInv, TypeInv', HeldInv, [Next]_vars PROVE CountInv'
<1>1. CountInv
  BY DEF HeldInv
<1>2. CASE UNCHANGED <<client_map, client, records>>
  BY <1>1, <1>2, SameCount DEF records
<1>3. CASE callback_archive
  BY <1>2, <1>3, ArchiveDataHeld, CombineLogHeld, HoldLogHeld
     DEF callback_archive, ArchiveDone, contexts
<1>4. CASE callback_server_connect
  BY <1>2, <1>4 DEF callback_server_connect
<1>5. ASSUME NEW k \in Conns, ReceiveRecord(k) PROVE CountInv'
  <2>1. UNCHANGED <<client_map, client, log_message, archived>>
    BY <1>5 DEF ReceiveRecord
  <2>2. CASE \E m \in Message : \E n \in FreeRecs : QueueRecord(m, n)
    BY <2>1, <2>2, QueueRecordHeld
  <2>3. CASE UNCHANGED <<content, refs, record_queue, telemetry_queue>>
    BY <1>2, <2>1, <2>3 DEF records
  <2> QED BY <1>5, <2>2, <2>3, ReceivedRecord
<1>6. ASSUME NEW k \in Conns, \/ ReceivePiece(k) \/ SendReply(k) \/ ReceiveNothing(k)
                              \/ callback_server_closed(k) \/ callback_server_can_send(k)
                              \/ ClientDrained(k)
      PROVE  CountInv'
  BY <1>2, <1>6 DEF ReceivePiece, SendReply, ReceiveNothing, callback_server_closed,
                    callback_server_can_send, ClientDrained, contexts
<1>7. CASE LoopStep \/ SelectReturns \/ Sigterm \/ Killed \/ UNCHANGED vars
  BY <1>2, <1>7, LoopLeaves DEF vars, contexts
<1>8. CASE PeerStep
  <2>1. \A k \in client_map : Carried(client'[k]) = Carried(client[k])
    BY <1>8, PeersKeepRecords DEF Carried
  <2>2. UNCHANGED <<client_map, record_queue, telemetry_queue, log_message, content, refs>>
    BY <1>8, PeersKeepRecords DEF records
  <2> QED BY <1>1, <2>1, <2>2, SameCount
<1>9. CASE Restart
  <2> SUFFICES ASSUME NEW r \in Rec
               PROVE  refs'[r] >= Owned(r)' /\ (Owned(r)' > 0 => content'[r] # <<>>)
    BY DEF CountInv
  <2>1. Having(r)' = {}
    BY <1>9 DEF Restart, Having
  <2>2. ToSet(record_queue'.items) = {} /\ ToSet(telemetry_queue'.items) = {} /\ log_message' # r
    BY <1>9, EmptyQueueFacts, BufferAssumption DEF Restart
  <2>3. Owned(r)' = 0
    BY <2>1, <2>2, FS_EmptySet DEF Owned, One
  <2>4. refs'[r] = 0
    BY <1>9 DEF Restart
  <2> QED BY <2>3, <2>4
<1> QED BY <1>3, <1>4, <1>5, <1>6, <1>7, <1>8, <1>9, ClientConnectHeld, AddClientRecordHeld,
           RetireOldClientHeld, ClientCanSendHeld
        DEF Next, ArchdStep, CallbackStep

\* The queues of archd, and the LOG held back.
LEMMA QueuesOnceStep ==
    ASSUME OpenInv, TypeInv, HeldInv, [Next]_vars
    PROVE  /\ IsInjective(record_queue.items)' /\ IsInjective(telemetry_queue.items)'
           /\ (log_message \notin ToSet(record_queue.items))'
<1>1. /\ IsInjective(record_queue.items) /\ IsInjective(telemetry_queue.items)
      /\ log_message \notin ToSet(record_queue.items)
  BY DEF HeldInv, OnceInv
<1>2. CASE UNCHANGED <<record_queue, telemetry_queue, log_message>>
  BY <1>1, <1>2
<1>3. CASE ArchiveData \/ CombineLog \/ HoldLog
  <2>1. /\ record_queue.items # <<>> /\ record_queue' = Taken(record_queue)
        /\ telemetry_queue' = telemetry_queue
        /\ log_message' \in {log_message, Head(record_queue.items), None}
    BY <1>3 DEF ArchiveData, CombineLog, HoldLog
  <2>2. IsInjective(record_queue'.items)
        /\ ToSet(record_queue'.items) = ToSet(record_queue.items) \ {Head(record_queue.items)}
    BY <2>1, TakenCount DEF HeldInv
  <2>3. None \notin ToSet(record_queue.items)
    <3>1. record_queue.items \in Seq(Rec)
      BY DEF TypeInv, RecordInv, QueueOf
    <3>2. ToSet(record_queue.items) \subseteq Rec
      BY <3>1, SetOfList
    <3> QED BY <3>2, BufferAssumption
  <2> QED BY <1>1, <2>1, <2>2, <2>3
<1>4. ASSUME NEW k \in Conns, ReceiveRecord(k)
      PROVE  /\ IsInjective(record_queue.items)' /\ IsInjective(telemetry_queue.items)'
             /\ (log_message \notin ToSet(record_queue.items))'
  <2>1. log_message' = log_message
    BY <1>4 DEF ReceiveRecord
  <2>2. CASE \E m \in Message : \E n \in FreeRecs : QueueRecord(m, n)
    <3>1. PICK m \in Message, n \in FreeRecs : QueueRecord(m, n)
      BY <2>2
    <3>2. log_message # n
      BY ReceivedIsNew
    <3>3. /\ IsInjective(record_queue'.items) /\ IsInjective(telemetry_queue'.items)
          /\ ToSet(record_queue'.items) = ToSet(record_queue.items) \cup {n}
      BY <3>1, QueuedFacts
    <3> QED BY <1>1, <2>1, <3>2, <3>3
  <2>3. CASE UNCHANGED <<content, refs, record_queue, telemetry_queue>>
    BY <1>2, <2>1, <2>3
  <2> QED BY <1>4, <2>2, <2>3, ReceivedRecord
<1>5. CASE Restart
  BY <1>5, EmptyQueueFacts DEF Restart
<1>6. CASE ArchiveDone \/ callback_server_connect \/ callback_client_connect
  BY <1>2, <1>6 DEF ArchiveDone, callback_server_connect, callback_client_connect, records
<1>7. ASSUME NEW k \in Conns, \/ ReceivePiece(k) \/ SendReply(k) \/ ReceiveNothing(k)
                              \/ callback_server_closed(k) \/ callback_server_can_send(k)
                              \/ ClientDrained(k) \/ add_client_record(k) \/ RetireOldClient(k)
                              \/ callback_client_can_send(k)
      PROVE  UNCHANGED <<record_queue, telemetry_queue, log_message>>
  BY <1>7 DEF ReceivePiece, SendReply, ReceiveNothing, callback_server_closed,
              callback_server_can_send, ClientDrained, add_client_record, RetireOldClient,
              callback_client_can_send, records
<1>8. CASE LoopStep \/ SelectReturns \/ Sigterm \/ Killed \/ UNCHANGED vars \/ PeerStep
  BY <1>2, <1>8, LoopLeaves, PeersLeave DEF vars, records
<1> QED BY <1>2, <1>3, <1>4, <1>5, <1>6, <1>7, <1>8
        DEF Next, ArchdStep, CallbackStep, callback_archive

\* A step after which client k at most has other records.
LEMMA ChangedClient ==
    ASSUME RelayedOnce, NEW k, client_map' \subseteq client_map \cup {k},
           \A j \in client_map \ {k} : client'[j] = client[j],
           k \in client_map' => /\ IsInjective(client'[k].queue.items)
                                /\ client'[k].partial \notin ToSet(client'[k].queue.items)
    PROVE  RelayedOnce'
BY DEF RelayedOnce

LEMMA RelayedOnceStep ==
    ASSUME OpenInv, OpenInv', TypeInv, HeldInv, [Next]_vars PROVE RelayedOnce'
<1>1. RelayedOnce /\ client_map \subseteq Conns
      /\ client \in [Conns -> ClientContext]
  BY DEF HeldInv, OnceInv, OpenInv, TypeInv, ContextInv
<1>2. CASE UNCHANGED <<client_map, client>>
  BY <1>1, <1>2 DEF RelayedOnce
<1>3. ASSUME NEW k, client_map' = client_map \ {k}, client' = [client EXCEPT ![k] = FreshClient]
      PROVE  RelayedOnce'
  BY <1>1, <1>3 DEF RelayedOnce
<1>4. CASE callback_client_connect
  <2>1. ASSUME Unused # {}, NEW k, k = Min(Unused),
               client' = [client EXCEPT ![k] = [FreshClient EXCEPT !.queue = Reversed(telemetry_queue)]],
               client_map' \in {client_map, client_map \cup {k}}
        PROVE  RelayedOnce'
    <3>1. k \in Conns /\ k \notin client_map
      BY <2>1, AcceptedIsNew
    <3>2. client'[k] = [FreshClient EXCEPT !.queue = Reversed(telemetry_queue)]
      BY <1>1, <2>1, <3>1
    <3>3. client'[k].queue = Reversed(telemetry_queue) /\ client'[k].partial = None
      BY <3>2 DEF FreshClient
    <3>4. telemetry_queue \in QueueOf(Rec) /\ IsInjective(telemetry_queue.items)
      BY DEF TypeInv, RecordInv, HeldInv, OnceInv
    <3>5. telemetry_queue.items \in Seq(Rec)
      BY <3>4 DEF QueueOf
    <3>6. ToSet(telemetry_queue.items) \subseteq Rec
      BY <3>5, SetOfList
    <3>7. IsInjective(Reversed(telemetry_queue).items)
          /\ ToSet(Reversed(telemetry_queue).items) = ToSet(telemetry_queue.items)
      BY <3>4, ReversedFacts
    <3>8. /\ IsInjective(client'[k].queue.items)
          /\ client'[k].partial \notin ToSet(client'[k].queue.items)
      BY <3>3, <3>6, <3>7, BufferAssumption
    <3>9. client_map' \subseteq client_map \cup {k} /\ \A j \in client_map \ {k} : client'[j] = client[j]
      BY <1>1, <2>1, <3>1
    <3> QED BY <1>1, <3>8, <3>9, ChangedClient
  <2> QED BY <1>2, <1>4, <2>1 DEF callback_client_connect
<1>5. ASSUME NEW k \in Conns, add_client_record(k) PROVE RelayedOnce'
  <2>1. PICK n, c, q : /\ n = Last(record_queue.items) /\ c = client[k]
                       /\ q = Put(c.queue, Depth, n)
    OBVIOUS
  <2>2. Receiving(running) /\ k \in fan /\ k \in client_map
    BY <1>5 DEF add_client_record, OpenInv
  <2>3. n \in Rec /\ c \in ClientContext
    BY <1>1, <2>1, <2>2, LastReceived
  <2>4. /\ IsInjective(c.queue.items) /\ c.partial \notin ToSet(c.queue.items)
        /\ n \notin Carried(c)
    BY <2>1, <2>2 DEF HeldInv, OnceInv, RelayedOnce, Receiving
  <2>5. IsInjective(q.items) /\ c.partial \notin ToSet(q.items)
    BY <2>1, <2>3, <2>4, AddedRecord
  <2>6. CASE client_map' = client_map \ {k} /\ client' = [client EXCEPT ![k] = FreshClient]
    BY <1>3, <2>6
  <2>7. CASE client_map' = client_map /\ client' = [client EXCEPT ![k].queue = q]
    <3>1. client'[k].queue = q /\ client'[k].partial = c.partial
      BY <1>1, <2>1, <2>7 DEF ClientContext
    <3>2. \A j \in client_map \ {k} : client'[j] = client[j]
      BY <1>1, <2>7
    <3> QED BY <1>1, <2>5, <2>7, <3>1, <3>2, ChangedClient
  <2> QED BY <1>5, <2>1, <2>6, <2>7 DEF add_client_record, ClientClosed
<1>6. ASSUME NEW k \in Conns, RetireOldClient(k) PROVE RelayedOnce'
  BY <1>2, <1>3, <1>6 DEF RetireOldClient, ClientClosed
<1>7. ASSUME NEW k \in Conns, callback_client_can_send(k) PROVE RelayedOnce'
  <2>1. PICK c, w : c = client[k] /\ w = WithoutCurrent(c)
    OBVIOUS
  <2>2. k \in client_map /\ ~NothingToSend(c) /\ client_map' = client_map
    BY <1>7, <2>1 DEF callback_client_can_send
  <2>3. /\ IsInjective(w.queue.items) /\ w.partial = None
        /\ None \notin ToSet(w.queue.items) /\ Current(c) \notin ToSet(w.queue.items)
    BY <1>1, <2>1, <2>2, SentRecord DEF RelayedOnce
  <2>4. \A j \in client_map \ {k} : client'[j] = client[j]
    BY <1>1, <1>7 DEF callback_client_can_send
  <2>5. CASE client' = [client EXCEPT ![k] = w]
    <3>1. client'[k] = w
      BY <1>1, <2>5
    <3> QED BY <1>1, <2>2, <2>3, <2>4, <3>1, ChangedClient
  <2>6. CASE \E o : client' = [client EXCEPT ![k] = [w EXCEPT !.partial = Current(c), !.offset = o]]
    <3>1. client'[k].queue = w.queue /\ client'[k].partial = Current(c)
      BY <1>1, <2>1, <2>6 DEF WithoutCurrent
    <3> QED BY <1>1, <2>2, <2>3, <2>4, <3>1, ChangedClient
  <2> QED BY <1>7, <2>1, <2>5, <2>6 DEF callback_client_can_send
<1>8. CASE PeerStep
  BY <1>1, <1>8, PeersKeepRecords DEF RelayedOnce
<1>9. CASE Restart
  BY <1>9 DEF Restart, RelayedOnce
<1>10. CASE callback_archive \/ callback_server_connect
  BY <1>2, <1>10 DEF callback_archive, ArchiveData, CombineLog, HoldLog, ArchiveDone,
                     callback_server_connect, contexts
<1>11. ASSUME NEW k \in Conns, \/ ReceivePiece(k) \/ ReceiveRecord(k) \/ SendReply(k)
                               \/ ReceiveNothing(k) \/ callback_server_closed(k)
                               \/ callback_server_can_send(k) \/ ClientDrained(k)
       PROVE  RelayedOnce'
  BY <1>2, <1>11 DEF ReceivePiece, ReceiveRecord, SendReply, ReceiveNothing,
                     callback_server_closed, callback_server_can_send, ClientDrained, contexts
<1>12. CASE LoopStep \/ SelectReturns \/ Sigterm \/ Killed \/ UNCHANGED vars
  BY <1>2, <1>12, LoopLeaves DEF vars, contexts
<1> QED BY <1>4, <1>5, <1>6, <1>7, <1>8, <1>9, <1>10, <1>11, <1>12
        DEF Next, ArchdStep, CallbackStep

\* The clients still to be visited do not have the record they are to get.
LEMMA FanOnceStep ==
    ASSUME LoopInv, OpenInv, TypeInv, FanInv', HeldInv, [Next]_vars
    PROVE  (phase = "read" => \A k \in fan : Last(record_queue.items) \notin Carried(client[k]))'
<1> DEFINE New(k) == Last(record_queue.items) \notin Carried(client[k])
           Goal == phase' = "read" => \A k \in fan' : New(k)'
<1> SUFFICES Goal
  OBVIOUS
<1>1. phase = "read" => \A k \in fan : New(k)
  BY DEF HeldInv, OnceInv
<1>2. /\ phase \notin {"read", "timeout", "returned", "null_read", "killed"} => fan = {}
      /\ phase = "read" /\ fan # {} => running \in server_map /\ reply > 0
      /\ fan \subseteq client_map /\ client_map \subseteq Conns
      /\ client \in [Conns -> ClientContext]
  BY DEF TypeInv, FanInv, OpenInv, ContextInv, Pcomm!Ended
<1>3. CASE fan' = {}
  BY <1>3
<1>4. CASE phase' = phase /\ fan' \subseteq fan /\ record_queue' = record_queue
           /\ \A k \in fan' : client'[k].queue = client[k].queue /\ client'[k].partial = client[k].partial
  BY <1>1, <1>4 DEF Carried
<1>5. CASE callback_archive \/ callback_server_connect \/ callback_client_connect
  <2>1. fan' = fan
    BY <1>5 DEF callback_archive, ArchiveData, CombineLog, HoldLog, ArchiveDone,
                callback_server_connect, callback_client_connect, locals
  <2>2. fan = {}
    <3>1. ServerSocket \notin server_map /\ ClientSocket \notin server_map
      BY FdAssumption DEF OpenInv
    <3>2. phase = "prepare" \/ (phase = "timeout" /\ fan = {})
          \/ (phase = "read" /\ running \in {ServerSocket, ClientSocket})
      BY <1>5 DEF callback_archive, ArchiveData, CombineLog, HoldLog, ArchiveDone, Archiving,
                  callback_server_connect, callback_client_connect
    <3> QED BY <1>2, <3>1, <3>2
  <2> QED BY <1>3, <2>1, <2>2
<1>6. ASSUME NEW k \in Conns, ReceivePiece(k) \/ ReceiveNothing(k) \/ callback_server_closed(k)
      PROVE  Goal
  <2>1. fan' = fan /\ phase = "read" /\ reply = 0
    BY <1>6 DEF ReceivePiece, ReceiveNothing, callback_server_closed, Receiving
  <2> QED BY <1>2, <1>3, <2>1
<1>7. ASSUME NEW k \in Conns, ReceiveRecord(k) PROVE Goal
  <2>1. UNCHANGED <<client_map, client>>
    BY <1>7 DEF ReceiveRecord
  <2>2. CASE \E m \in Message : \E n \in FreeRecs : QueueRecord(m, n)
    <3>1. PICK m \in Message, n \in FreeRecs : QueueRecord(m, n)
      BY <2>2
    <3>2. Last(record_queue'.items) = n /\ Having(n) = {}
      BY <3>1, QueuedFacts, ReceivedIsNew
    <3>3. fan' \subseteq client_map
      BY <1>7, ReceivedRecord
    <3> QED BY <2>1, <3>2, <3>3 DEF Having
  <2> QED BY <1>3, <1>7, <2>2, ReceivedRecord
<1>8. ASSUME NEW k \in Conns, SendReply(k) PROVE Goal
  BY <1>3, <1>8 DEF SendReply
<1>9. ASSUME NEW k \in Conns, \/ callback_server_can_send(k) \/ callback_client_can_send(k)
                              \/ ClientDrained(k)
      PROVE  Goal
  <2>1. fan' = fan /\ phase = "write"
    BY <1>9 DEF callback_server_can_send, callback_client_can_send, ClientDrained, locals
  <2> QED BY <1>2, <1>3, <2>1
<1>10. ASSUME NEW k \in Conns, add_client_record(k) \/ RetireOldClient(k) PROVE Goal
  <2>1. fan' = fan \ {k} /\ phase' = phase /\ record_queue' = record_queue
    BY <1>10 DEF add_client_record, RetireOldClient, Pcomm!Continue
  <2>2. \A j \in fan' : client'[j] = client[j]
    BY <1>2, <1>10, <2>1 DEF add_client_record, RetireOldClient, ClientClosed
  <2> QED BY <1>4, <2>1, <2>2
<1>11. CASE SelectReturns
  BY <1>2, <1>3, <1>11 DEF SelectReturns, Pcomm!SelectTimeout, locals
<1>12. CASE LoopStep
  <2>1. fan' = fan /\ UNCHANGED <<record_queue, client>>
    BY <1>12, LoopLeaves DEF LoopStep, locals, contexts, records
  <2>2. fan = {} \/ phase' # "read"
    <3>1. NoFd \notin server_map
      BY FdAssumption DEF OpenInv, AllFds
    <3>2. CASE fan # {} /\ phase = "read"
      <4>1. running # NoFd
        BY <1>2, <3>1, <3>2
      <4> QED BY <1>12, <3>2, <4>1 DEF LoopStep, Pcomm!LoopTop, Pcomm!Populate, Pcomm!StartCallback,
                                        Pcomm!ReadNullSet, Pcomm!EndPass, Pcomm!InPass, Pcomm!Stream
    <3>3. CASE phase \in {"timeout", "returned", "null_read", "killed"}
      BY <1>12, <3>3 DEF LoopStep, Pcomm!LoopTop, Pcomm!Populate, Pcomm!StartCallback,
                         Pcomm!ReadNullSet, Pcomm!EndPass, Pcomm!InPass, Pcomm!Stream
    <3> QED BY <1>2, <3>2, <3>3
  <2> QED BY <1>3, <2>1, <2>2
<1>13. CASE Sigterm \/ Killed
  <2>1. fan' = fan /\ UNCHANGED <<record_queue, client>>
    BY <1>13, LoopLeaves DEF Sigterm, Killed, locals, contexts, records
  <2>2. phase' = phase \/ phase = "select" \/ phase' = "killed"
    BY <1>13 DEF Sigterm, Killed, Pcomm!Signal, Pcomm!Kill
  <2> QED BY <1>2, <1>3, <1>4, <2>1, <2>2
<1>14. CASE Restart
  BY <1>3, <1>14 DEF Restart
<1>15. CASE PeerStep
  <2>1. UNCHANGED <<record_queue, phase, fan>>
    BY <1>15, PeersKeepRecords DEF records
  <2>2. \A k \in fan : client'[k].queue = client[k].queue /\ client'[k].partial = client[k].partial
    BY <1>2, <1>15, PeersKeepRecords
  <2> QED BY <1>4, <2>1, <2>2
<1>16. CASE UNCHANGED vars
  BY <1>4, <1>16 DEF vars, pcomm_vars, contexts, records, locals
<1> HIDE DEF Goal
<1> QED BY <1>5, <1>6, <1>7, <1>8, <1>9, <1>10, <1>11, <1>12, <1>13, <1>14, <1>15, <1>16
        DEF Next, ArchdStep, CallbackStep

LEMMA InitialHeld == Init => HeldInv
<1> SUFFICES ASSUME Init PROVE HeldInv
  OBVIOUS
<1>1. /\ record_queue.items = <<>> /\ telemetry_queue.items = <<>> /\ log_message = None
      /\ client_map = {} /\ fan = {} /\ refs = [r \in Rec |-> 0]
  BY EmptyQueueFacts DEF Init
<1>2. OnceInv
  BY <1>1, EmptyQueueFacts DEF OnceInv, RelayedOnce
<1>3. ASSUME NEW r \in Rec PROVE Owned(r) = 0 /\ refs[r] = 0
  <2>1. Having(r) = {} /\ log_message # r
    BY <1>1, BufferAssumption DEF Having
  <2> QED BY <1>1, <2>1, EmptyQueueFacts, FS_EmptySet DEF Owned, One
<1>4. CountInv
  BY <1>3 DEF CountInv
<1> QED BY <1>2, <1>4 DEF HeldInv

LEMMA HeldInvariance == Spec => []HeldInv
<1>1. LoopInv /\ OpenInv /\ OpenInv' /\ TypeInv /\ TypeInv' /\ HeldInv /\ [Next]_vars => HeldInv'
  <2> SUFFICES ASSUME LoopInv, OpenInv, OpenInv', TypeInv, TypeInv', HeldInv, [Next]_vars
               PROVE  HeldInv'
    OBVIOUS
  <2>1. CountInv'
    BY CountStep
  <2>2. FanInv'
    BY DEF TypeInv
  <2>3. OnceInv'
    BY <2>2, QueuesOnceStep, RelayedOnceStep, FanOnceStep DEF OnceInv
  <2> QED BY <2>1, <2>3 DEF HeldInv
<1> QED BY InitialHeld, <1>1, LoopInvariance, OpenInvariance, TypeInvariance, PTL DEF Spec

\* Whatever is received, archived, combined, cloned, evicted, sent in pieces, expired or cut
\* off, each queue and each client has a record at most once and every holder owns a
\* reference of the record's buffer, which is therefore never given back under it.
THEOREM EveryHolderIsCounted == Spec => []RecordsAreHeld
<1>1. OpenInv /\ TypeInv /\ HeldInv => RecordsAreHeld
  <2> SUFFICES ASSUME OpenInv, TypeInv, HeldInv, NEW r \in Rec
               PROVE  /\ refs[r] >= Cardinality(Holders(r))
                      /\ Holders(r) # {} => content[r] # <<>>
    BY DEF RecordsAreHeld, HeldInv, OnceInv
  <2> DEFINE Archd(name, holds) == IF holds THEN {<<name, None>>} ELSE {}
             A == Archd("record_queue", r \in ToSet(record_queue.items))
             B == Archd("telemetry_queue", r \in ToSet(telemetry_queue.items))
             L == Archd("log_message", log_message = r)
             C == {<<"client", k>> : k \in Having(r)}
  <2>1. Holders(r) = ((A \cup B) \cup L) \cup C
    BY DEF Holders, Having, Carried
  <2>2. /\ IsFiniteSet({}) /\ Cardinality({}) = 0
        /\ \A x : IsFiniteSet({x}) /\ Cardinality({x}) = 1
    BY FS_EmptySet, FS_Singleton
  <2>3. /\ IsFiniteSet(A) /\ Cardinality(A) = One(r \in ToSet(record_queue.items))
        /\ IsFiniteSet(B) /\ Cardinality(B) = One(r \in ToSet(telemetry_queue.items))
        /\ IsFiniteSet(L) /\ Cardinality(L) = One(log_message = r)
    <3>1. IsFiniteSet(A) /\ Cardinality(A) = One(r \in ToSet(record_queue.items))
      BY <2>2 DEF One
    <3>2. IsFiniteSet(B) /\ Cardinality(B) = One(r \in ToSet(telemetry_queue.items))
      BY <2>2 DEF One
    <3>3. IsFiniteSet(L) /\ Cardinality(L) = One(log_message = r)
      BY <2>2 DEF One
    <3> QED BY <3>1, <3>2, <3>3
  <2>4. IsFiniteSet(C) /\ Cardinality(C) <= Cardinality(Having(r))
    <3>1. PICK f : f = [k \in Having(r) |-> <<"client", k>>]
      OBVIOUS
    <3>2. f \in Surjection(Having(r), C)
      BY <3>1 DEF Surjection
    <3>3. IsFiniteSet(Having(r))
      BY HavingFinite DEF OpenInv, Having
    <3> QED BY <3>2, <3>3, FS_Surjection
  <2>5. ASSUME NEW S, NEW T, IsFiniteSet(S), IsFiniteSet(T)
        PROVE  IsFiniteSet(S \cup T) /\ Cardinality(S \cup T) <= Cardinality(S) + Cardinality(T)
    <3>1. /\ Cardinality(S) \in Nat /\ Cardinality(T) \in Nat
          /\ IsFiniteSet(S \cap T) /\ Cardinality(S \cap T) \in Nat
      BY <2>5, FS_CardinalityType, FS_Intersection
    <3>2. /\ IsFiniteSet(S \cup T)
          /\ Cardinality(S \cup T) = Cardinality(S) + Cardinality(T) - Cardinality(S \cap T)
      BY <2>5, FS_Union
    <3> QED BY <3>1, <3>2
  <2> HIDE DEF A, B, L, C
  <2>6. PICK U, V : U = A \cup B /\ V = U \cup L
    OBVIOUS
  <2>7. /\ IsFiniteSet(U) /\ Cardinality(U) <= Cardinality(A) + Cardinality(B)
        /\ IsFiniteSet(V) /\ Cardinality(V) <= Cardinality(U) + Cardinality(L)
        /\ IsFiniteSet(V \cup C) /\ Cardinality(V \cup C) <= Cardinality(V) + Cardinality(C)
    <3>1. IsFiniteSet(U) /\ Cardinality(U) <= Cardinality(A) + Cardinality(B)
      BY <2>3, <2>5, <2>6
    <3>2. IsFiniteSet(V) /\ Cardinality(V) <= Cardinality(U) + Cardinality(L)
      BY <2>3, <2>5, <2>6, <3>1
    <3> QED BY <2>4, <2>5, <3>1, <3>2
  <2>8. /\ Cardinality(A) \in Nat /\ Cardinality(B) \in Nat /\ Cardinality(L) \in Nat
        /\ Cardinality(U) \in Nat /\ Cardinality(V) \in Nat /\ Cardinality(C) \in Nat
        /\ Cardinality(V \cup C) \in Nat /\ Cardinality(Having(r)) \in Nat
        /\ (Cardinality(V \cup C) = 0 <=> V \cup C = {})
    <3>1. Cardinality(Having(r)) \in Nat
      BY OwnedType
    <3> QED BY <3>1, <2>3, <2>4, <2>7, FS_CardinalityType, FS_EmptySet
  <2>9. Owned(r) = Cardinality(A) + Cardinality(B) + Cardinality(L) + Cardinality(Having(r))
    BY <2>3 DEF Owned
  <2>10. Cardinality(V \cup C) <= Owned(r) /\ Owned(r) \in Nat
    BY <2>4, <2>7, <2>8, <2>9
  <2>11. Holders(r) = V \cup C
    BY <2>1, <2>6
  <2>12. refs[r] >= Owned(r) /\ (Owned(r) > 0 => content[r] # <<>>)
         /\ refs[r] \in Nat
    BY DEF HeldInv, CountInv, TypeInv, RecordInv
  <2>13. Holders(r) # {} => Owned(r) > 0
    BY <2>8, <2>10, <2>11
  <2>14. refs[r] >= Cardinality(Holders(r))
    BY <2>8, <2>10, <2>11, <2>12
  <2> QED BY <2>12, <2>13, <2>14
<1> QED BY <1>1, OpenInvariance, TypeInvariance, HeldInvariance, PTL

\* A client is sent a record once: the record add_client_record queues is not in the clone of
\* the telemetry queue the client started with, nor is it the one the client is in the middle of.
THEOREM NoRecordIsRelayedTwice == Spec => []RelayedOnce
<1>1. HeldInv => RelayedOnce
  BY DEF HeldInv, OnceInv
<1> QED BY <1>1, HeldInvariance, PTL

-----------------------------------------------------------------------------
(* TypeOK, with the bound of a combined LOG.                               *)

\* A record that waits for callback_archive holds one message, and the LOG held back as many
\* as CombineSeed let in.
LengthInv ==
    /\ \A r \in ToSet(record_queue.items) : Len(content[r]) = 1
    /\ \A r \in Rec : Len(content[r]) <= CombineMax

\* A step that frees buffers, fills one, or fills up the LOG held back.
LEMMA LengthKept ==
    ASSUME LengthInv,
           \A x \in Rec : \/ content'[x] \in {content[x], <<>>}
                          \/ Len(content'[x]) <= CombineMax /\ x \notin ToSet(record_queue'.items)
                          \/ Len(content'[x]) = 1,
           \A x \in ToSet(record_queue'.items) :
              x \in Rec /\ content'[x] # <<>> /\ (x \in ToSet(record_queue.items) \/ Len(content'[x]) = 1)
    PROVE  LengthInv'
<1>1. Len(<<>>) = 0 /\ 0 <= CombineMax /\ 1 <= CombineMax
  BY EmptySeq, BoundAssumption
<1>2. ASSUME NEW x \in Rec PROVE Len(content'[x]) <= CombineMax
  BY <1>1, <1>2 DEF LengthInv
<1>3. ASSUME NEW x \in ToSet(record_queue'.items) PROVE Len(content'[x]) = 1
  BY <1>3 DEF LengthInv
<1> QED BY <1>2, <1>3 DEF LengthInv

LEMMA LengthStep ==
    ASSUME OpenInv, OpenInv', TypeInv, TypeInv', HeldInv, HeldInv', LengthInv, [Next]_vars
    PROVE  LengthInv'
<1>1. \A x \in ToSet(record_queue'.items) : x \in Rec /\ content'[x] # <<>>
  <2>1. record_queue'.items \in Seq(Rec)
    BY DEF TypeInv, RecordInv, QueueOf
  <2>2. ASSUME NEW x \in ToSet(record_queue'.items) PROVE x \in Rec /\ content'[x] # <<>>
    <3>1. x \in Rec
      BY <2>1, <2>2, SetOfList
    <3>2. Cardinality(Having(x)') \in Nat
      BY OwnedTypeNext
    <3>3. Owned(x)' > 0
      BY <2>2, <3>2 DEF Owned, One
    <3> QED BY <3>1, <3>3 DEF HeldInv, CountInv
  <2> QED BY <2>2
<1>2. content \in [Rec -> Seq(Message)]
  BY DEF TypeInv, RecordInv
<1>3. ASSUME ToSet(record_queue'.items) \subseteq ToSet(record_queue.items),
             content' = Freed(content, refs') \/ content' = content
      PROVE  LengthInv'
  <2>1. \A x \in Rec : content'[x] \in {content[x], <<>>}
    BY <1>3 DEF Freed
  <2> QED BY <1>1, <1>3, <2>1, LengthKept
<1>4. CASE ArchiveData \/ HoldLog
  <2>1. /\ record_queue.items # <<>> /\ record_queue' = Taken(record_queue)
        /\ content' = Freed(content, refs')
    BY <1>4 DEF ArchiveData, HoldLog
  <2> QED BY <1>3, <2>1, TakenCount DEF HeldInv
<1>5. CASE CombineLog
  <2>1. PICK h : h = Head(record_queue.items)
    OBVIOUS
  <2>2. /\ record_queue.items # <<>> /\ record_queue' = Taken(record_queue)
        /\ content' = Freed(Combined(h), refs')
        /\ log_message # None /\ Len(content[log_message]) < CombineMax
    BY <1>5, <2>1 DEF CombineLog, Combines
  <2>3. /\ h \in Rec /\ h \in ToSet(record_queue.items)
        /\ ToSet(record_queue'.items) \subseteq ToSet(record_queue.items)
    BY <2>1, <2>2, TakenCount DEF HeldInv
  <2>4. log_message \in Rec /\ log_message \notin ToSet(record_queue.items)
    BY <2>2 DEF TypeInv, RecordInv, HeldInv, OnceInv
  <2>5. PICK a, b : a = content[log_message] /\ b = content[h]
    OBVIOUS
  <2>6. a \in Seq(Message) /\ b \in Seq(Message) /\ Len(b) = 1
    BY <1>2, <2>3, <2>4, <2>5 DEF LengthInv
  <2>7. Len(a \o b) = Len(a) + Len(b) /\ Len(a) \in Nat
    BY <2>6, ConcatProperties, LenProperties
  <2>8. Len(a \o b) <= CombineMax
    BY <2>2, <2>5, <2>6, <2>7, BoundAssumption
  <2>9. Combined(h) = [content EXCEPT ![log_message] = a \o b]
    BY <2>5 DEF Combined
  <2>10. \A x \in Rec : content'[x] \in {Combined(h)[x], <<>>}
    BY <2>2 DEF Freed
  <2>11. \A x \in Rec : x # log_message => content'[x] \in {content[x], <<>>}
    BY <1>2, <2>9, <2>10
  <2>12. Len(content'[log_message]) <= CombineMax
    <3>1. content'[log_message] \in {a \o b, <<>>}
      BY <1>2, <2>4, <2>9, <2>10
    <3> QED BY <2>8, <3>1, EmptySeq, BoundAssumption
  <2> QED BY <1>1, <2>3, <2>4, <2>11, <2>12, LengthKept
<1>6. CASE ArchiveDone \/ callback_server_connect \/ callback_client_connect
  BY <1>3, <1>6 DEF ArchiveDone, callback_server_connect, callback_client_connect, records
<1>7. ASSUME NEW k \in Conns, ReceiveRecord(k) PROVE LengthInv'
  <2>1. CASE \E m \in Message : \E n \in FreeRecs : QueueRecord(m, n)
    <3>1. PICK m \in Message, n \in FreeRecs : QueueRecord(m, n)
      BY <2>1
    <3>2. ToSet(record_queue'.items) = ToSet(record_queue.items) \cup {n} /\ n \in Rec
      BY <3>1, QueuedFacts, ReceivedIsNew
    <3>3. PICK c : c = [content EXCEPT ![n] = <<m>>]
      OBVIOUS
    <3>4. content' = Freed(c, refs')
      BY <3>1, <3>3 DEF QueueRecord
    <3>5. \A x \in Rec : content'[x] \in {c[x], <<>>}
      BY <3>4 DEF Freed
    <3>6. c[n] = <<m>> /\ \A x \in Rec : x # n => c[x] = content[x]
      BY <1>2, <3>2, <3>3
    <3>7. Len(<<m>>) = 1
      OBVIOUS
    <3>8. Len(content'[n]) = 1
      BY <1>1, <3>2, <3>5, <3>6, <3>7
    <3>9. \A x \in Rec : x # n => content'[x] \in {content[x], <<>>}
      BY <3>5, <3>6
    <3> QED BY <1>1, <3>2, <3>8, <3>9, LengthKept
  <2>2. CASE UNCHANGED <<content, refs, record_queue, telemetry_queue>>
    BY <1>3, <2>2
  <2> QED BY <1>7, <2>1, <2>2, ReceivedRecord
<1>8. ASSUME NEW k \in Conns, \/ ReceivePiece(k) \/ SendReply(k) \/ ReceiveNothing(k)
                              \/ callback_server_closed(k) \/ callback_server_can_send(k)
                              \/ ClientDrained(k) \/ add_client_record(k) \/ RetireOldClient(k)
                              \/ callback_client_can_send(k)
      PROVE  LengthInv'
  <2>1. record_queue' = record_queue /\ (content' = Freed(content, refs') \/ content' = content)
    BY <1>8 DEF ReceivePiece, SendReply, ReceiveNothing, callback_server_closed,
                callback_server_can_send, ClientDrained, add_client_record, RetireOldClient,
                callback_client_can_send, records
  <2> QED BY <1>3, <2>1
<1>9. CASE LoopStep \/ SelectReturns \/ Sigterm \/ Killed \/ UNCHANGED vars \/ PeerStep
  BY <1>3, <1>9, LoopLeaves, PeersLeave DEF vars, records
<1>10. CASE Restart
  <2>1. record_queue'.items = <<>> /\ content' = [r \in Rec |-> <<>>]
    BY <1>10, EmptyQueueFacts DEF Restart
  <2>2. ToSet(record_queue'.items) = {}
    BY <2>1, EmptyQueueFacts
  <2> QED BY <1>1, <2>1, <2>2, LengthKept
<1> QED BY <1>4, <1>5, <1>6, <1>7, <1>8, <1>9, <1>10
        DEF Next, ArchdStep, CallbackStep, callback_archive

LEMMA LengthInvariance == Spec => []LengthInv
<1>1. Init => LengthInv
  <2> SUFFICES ASSUME Init PROVE LengthInv
    OBVIOUS
  <2>1. ToSet(record_queue.items) = {} /\ \A r \in Rec : content[r] = <<>>
    BY EmptyQueueFacts DEF Init
  <2> QED BY <2>1, EmptySeq, BoundAssumption DEF LengthInv
<1>2. OpenInv /\ OpenInv' /\ TypeInv /\ TypeInv' /\ HeldInv /\ HeldInv' /\ LengthInv /\ [Next]_vars
        => LengthInv'
  BY LengthStep
<1> QED BY <1>1, <1>2, OpenInvariance, TypeInvariance, HeldInvariance, PTL DEF Spec

\* Every variable of archd stays in its type; a LOG record that others are combined into does
\* not outgrow its buffer, the offset of a record sent in part lies inside it, and a client's
\* queue never holds more than telemetry_depth records.
THEOREM ArchdTypes == Spec => []TypeOK
<1>1. LoopInv /\ OpenInv /\ TypeInv /\ LengthInv => TypeOK
  <2> SUFFICES ASSUME LoopInv, OpenInv, TypeInv, LengthInv PROVE TypeOK
    OBVIOUS
  <2>1. Pcomm!TypeOK
    BY DEF LoopInv
  <2>2. /\ sock \in [Conns -> Peer \cup {None}]
        /\ \A p \in Peer : link[p] \in {"away", "queued", "open"} /\ inbox[p] \in 0..SendRoom
        /\ server_map \subseteq Conns /\ client_map \subseteq Conns
    BY DEF OpenInv, TypeInv, NetInv
  <2>3. \A k \in Conns : /\ Len(server[k].buffer) < RecordUnits
                         /\ client[k].partial \in Rec \cup {None}
                         /\ client[k].offset < RecordUnits
                         /\ client[k].queue.size <= Depth
    BY DEF TypeInv, ContextInv, ServerContext, ClientContext
  <2>4. /\ \A r \in Rec : content[r] \in Seq(Message) /\ Len(content[r]) <= CombineMax
        /\ refs \in [Rec -> Nat]
        /\ record_queue.items \in Seq(Rec) /\ telemetry_queue.items \in Seq(Rec)
        /\ log_message \in Rec \cup {None}
    BY DEF TypeInv, RecordInv, LengthInv, QueueOf
  <2> QED BY <2>1, <2>2, <2>3, <2>4 DEF TypeOK
<1> QED BY <1>1, LoopInvariance, OpenInvariance, TypeInvariance, LengthInvariance, PTL

-----------------------------------------------------------------------------
(* What waits for a peer is watched for room.                              *)

\* A feeder's replies may wait unwatched while its own callback runs.
RepliesWatched ==
    \A k \in server_map : server[k].replies.items # <<>> =>
        k \in ToSet(fds["write"]) \/ (phase = "read" /\ running = k)
RecordsWatched == \A k \in client_map : ~NothingToSend(client[k]) => k \in ToSet(fds["write"])

PendingInv == ~exit_request /\ phase \notin Pcomm!Ended => RepliesWatched /\ RecordsWatched

\* archd that goes on was going on, or has just been started.
LEMMA GoingOn ==
    ASSUME LoopInv, [Next]_vars, ~Restart, ~exit_request', phase' \notin Pcomm!Ended
    PROVE  ~exit_request /\ phase \notin Pcomm!Ended
<1>1. CASE LoopStep
  BY <1>1 DEF LoopStep, Pcomm!LoopTop, Pcomm!Populate, Pcomm!StartCallback, Pcomm!ReadNullSet,
              Pcomm!EndPass, Pcomm!InPass, Pcomm!Stream, Pcomm!Ended
<1>2. CASE SelectReturns
  BY <1>2 DEF SelectReturns, Pcomm!SelectReady, Pcomm!SelectTimeout, Pcomm!Ended
<1>3. CASE CallbackStep
  <2>1. \E lists : Pcomm!CallbackLeaves(lists)
    BY <1>3, ZenonT(30)
       DEF CallbackStep, callback_archive, ArchiveData, CombineLog, HoldLog, ArchiveDone,
                callback_server_connect, callback_client_connect, ReceivePiece, ReceiveRecord,
                SendReply, ReceiveNothing, callback_server_closed, callback_server_can_send,
                add_client_record, RetireOldClient, callback_client_can_send, ClientDrained,
                ClientClosed, Pcomm!CallbackMonitors, Pcomm!CallbackRemoves, Pcomm!CallbackCloses,
                Pcomm!CallbackRuns
  <2>2. exit_request' = exit_request /\ Pcomm!InCallback
    BY <2>1 DEF Pcomm!CallbackLeaves
  <2> QED BY <2>2, SMTT(30) DEF LoopInv, Pcomm!InCallback, Pcomm!Stream, Pcomm!Ended
<1>4. CASE Sigterm \/ Killed
  BY <1>4 DEF Sigterm, Killed, Pcomm!Signal, Pcomm!Kill
<1>5. CASE PeerStep \/ UNCHANGED vars
  BY <1>5, PeersLeave DEF vars, pcomm_vars
<1> QED BY <1>1, <1>2, <1>3, <1>4, <1>5 DEF Next, ArchdStep

\* Turns of the callbacks of feeders.
LEMMA RepliesStay ==
    ASSUME LoopInv, OpenInv, TypeInv, NEW k \in Conns, ~exit_request,
           RepliesWatched, RecordsWatched,
           \/ ReceivePiece(k) \/ ReceiveRecord(k) \/ SendReply(k) \/ ReceiveNothing(k)
           \/ callback_server_closed(k) \/ callback_server_can_send(k)
    PROVE  RepliesWatched' /\ RecordsWatched'
<1>1. /\ server \in [Conns -> ServerContext] /\ server_map \subseteq Conns
      /\ server_map \cap client_map = {} /\ k \in AllFds
  BY PeerAssumption DEF TypeInv, ContextInv, OpenInv, AllFds
<1>2. \A v \in ServerContext : \A b : [v EXCEPT !.buffer = b].replies = v.replies
  BY DEF ServerContext
<1>3. CASE ReceivePiece(k) \/ ReceiveNothing(k)
  <2>1. /\ phase = "read" /\ running = k /\ k \in server_map
        /\ UNCHANGED <<server_map, client_map, client>>
        /\ \/ server[k].replies.items = <<>> /\ Pcomm!CallbackRuns
           \/ Pcomm!CallbackMonitors("write", k)
    BY <1>3 DEF ReceivePiece, ReceiveNothing, Receiving, contexts
  <2>2. \A j \in Conns : server'[j].replies = server[j].replies
    <3>1. CASE ReceivePiece(k)
      <4>1. server' = [server EXCEPT ![k] = [server[k] EXCEPT !.buffer = @ \o Incoming(k)]]
        BY <1>1, <3>1 DEF ReceivePiece
      <4> QED BY <1>1, <1>2, <4>1
    <3>2. CASE ReceiveNothing(k)
      BY <3>2 DEF ReceiveNothing, contexts
    <3> QED BY <1>3, <3>1, <3>2
  <2>3. CASE server[k].replies.items = <<>> /\ Pcomm!CallbackRuns
    <3>1. fds' = fds
      BY <2>3 DEF Pcomm!CallbackRuns, Pcomm!CallbackLeaves
    <3> QED BY <1>1, <2>1, <2>2, <2>3, <3>1 DEF RepliesWatched, RecordsWatched
  <2>4. CASE Pcomm!CallbackMonitors("write", k)
    <3>1. ToSet(fds'["write"]) = ToSet(fds["write"]) \cup {k}
      BY <1>1, <2>4, MonitorsWrite
    <3> QED BY <1>1, <2>1, <2>2, <3>1 DEF RepliesWatched, RecordsWatched
  <2> QED BY <2>1, <2>3, <2>4
<1>4. CASE ReceiveRecord(k) \/ SendReply(k)
  <2>1. /\ phase = "read" /\ running = k /\ k \in server_map
        /\ UNCHANGED <<server_map, client_map, client, fds, phase, running>>
    BY <1>4 DEF ReceiveRecord, SendReply, Receiving, Pcomm!CallbackRuns, Pcomm!CallbackLeaves,
                Pcomm!Continue
  <2>2. \A j \in Conns \ {k} : server'[j] = server[j]
    BY <1>1, <1>4 DEF ReceiveRecord, SendReply
  <2> QED BY <1>1, <2>1, <2>2 DEF RepliesWatched, RecordsWatched
<1>5. CASE callback_server_closed(k)
  <2>1. /\ phase = "read" /\ running = k /\ k \in server_map /\ Pcomm!CallbackCloses(k)
        /\ UNCHANGED <<client_map, client>> /\ server_map' = server_map \ {k}
    BY <1>5 DEF callback_server_closed, Receiving
  <2>2. \A j \in Conns \ {k} : server'[j] = server[j]
    BY <1>1, <1>5 DEF callback_server_closed
  <2>3. ToSet(fds'["write"]) = ToSet(fds["write"]) \ {k}
    BY <2>1, RemovesAll DEF OpenInv
  <2> QED BY <1>1, <2>1, <2>2, <2>3 DEF RepliesWatched, RecordsWatched
<1>6. CASE callback_server_can_send(k)
  <2>1. phase = "write" /\ k \in server_map /\ UNCHANGED <<server_map, client_map, client>>
    BY <1>6 DEF callback_server_can_send
  <2>2. \A j \in Conns \ {k} : server'[j] = server[j]
    BY <1>1, <1>6 DEF callback_server_can_send
  <2>3. CASE server[k].replies.items = <<>>
    <3>1. server' = server /\ ToSet(fds'["write"]) = ToSet(fds["write"]) \ {k}
      BY <1>6, <2>3, RemovesWrite DEF callback_server_can_send
    <3> QED BY <1>1, <2>1, <2>3, <3>1 DEF RepliesWatched, RecordsWatched
  <2>4. CASE server[k].replies.items # <<>>
    <3>1. fds' = fds
      BY <1>6, <2>4 DEF callback_server_can_send, Pcomm!CallbackRuns, Pcomm!CallbackLeaves
    <3> QED BY <1>1, <2>1, <2>2, <2>4, <3>1 DEF RepliesWatched, RecordsWatched
  <2> QED BY <2>3, <2>4
<1> QED BY <1>3, <1>4, <1>5, <1>6

\* A client that is closed, or that is visited and watched.
LEMMA ClientWatched ==
    ASSUME LoopInv, OpenInv, TypeInv, NEW k \in client_map, ~exit_request,
           RepliesWatched, RecordsWatched, UNCHANGED <<server_map, server, phase, running>>,
           \/ /\ Pcomm!CallbackRemoves("write", k)
              /\ client_map' = client_map \ {k} /\ client' = [client EXCEPT ![k] = FreshClient]
           \/ /\ Pcomm!CallbackMonitors("write", k)
              /\ client_map' = client_map /\ \E q : client' = [client EXCEPT ![k].queue = q]
    PROVE  RepliesWatched' /\ RecordsWatched'
<1>1. /\ client \in [Conns -> ClientContext] /\ client_map \subseteq Conns
      /\ server_map \cap client_map = {} /\ k \in AllFds
  BY PeerAssumption DEF TypeInv, ContextInv, OpenInv, AllFds
<1>2. \A j \in client_map \ {k} : client'[j] = client[j]
  BY <1>1
<1>3. CASE Pcomm!CallbackRemoves("write", k) /\ client_map' = client_map \ {k}
  <2>1. ToSet(fds'["write"]) = ToSet(fds["write"]) \ {k}
    BY <1>3, RemovesWrite
  <2> QED BY <1>1, <1>2, <1>3, <2>1 DEF RepliesWatched, RecordsWatched
<1>4. CASE Pcomm!CallbackMonitors("write", k) /\ client_map' = client_map
  <2>1. ToSet(fds'["write"]) = ToSet(fds["write"]) \cup {k}
    BY <1>1, <1>4, MonitorsWrite
  <2> QED BY <1>1, <1>2, <1>4, <2>1 DEF RepliesWatched, RecordsWatched
<1> QED BY <1>3, <1>4

LEMMA PendingStep ==
    ASSUME LoopInv, OpenInv, TypeInv, PendingInv, [Next]_vars PROVE PendingInv'
<1> SUFFICES ASSUME ~exit_request', phase' \notin Pcomm!Ended PROVE RepliesWatched' /\ RecordsWatched'
  BY DEF PendingInv
<1>1. CASE Restart
  BY <1>1 DEF Restart, RepliesWatched, RecordsWatched
<1> SUFFICES ASSUME ~Restart PROVE RepliesWatched' /\ RecordsWatched'
  BY <1>1
<1>2. ~exit_request /\ RepliesWatched /\ RecordsWatched
  BY GoingOn DEF PendingInv
<1>3. /\ server \in [Conns -> ServerContext] /\ client \in [Conns -> ClientContext]
      /\ server_map \subseteq Conns /\ client_map \subseteq Conns
      /\ server_map \cap client_map = {} /\ fan \subseteq client_map
  BY PeerAssumption DEF TypeInv, ContextInv, OpenInv
<1>4. NoFd \notin Conns /\ ServerSocket \notin Conns /\ ClientSocket \notin Conns
  BY FdAssumption DEF AllFds
<1>5. ASSUME UNCHANGED <<fds, server_map, server, client_map, client>>,
             phase # "read" \/ running \notin Conns
      PROVE  RepliesWatched' /\ RecordsWatched'
  BY <1>2, <1>3, <1>5 DEF RepliesWatched, RecordsWatched
<1>6. CASE callback_archive
  <2>1. UNCHANGED <<fds, server_map, server, client_map, client>> /\ phase # "read"
    BY <1>6 DEF callback_archive, ArchiveData, CombineLog, HoldLog, ArchiveDone, Archiving, contexts,
                Pcomm!CallbackRuns, Pcomm!CallbackLeaves
  <2> QED BY <1>5, <2>1
<1>7. CASE callback_server_connect
  <2>1. phase = "read" /\ running = ServerSocket /\ UNCHANGED <<client_map, client>>
    BY <1>7 DEF callback_server_connect
  <2>2. CASE Pcomm!CallbackRuns /\ UNCHANGED <<server_map, server>>
    <3>1. fds' = fds
      BY <2>2 DEF Pcomm!CallbackRuns, Pcomm!CallbackLeaves
    <3> QED BY <1>4, <1>5, <2>1, <2>2, <3>1
  <2>3. ASSUME NEW k, k = Min(Unused), Unused # {}, server' = [server EXCEPT ![k] = FreshServer],
               Pcomm!CallbackMonitors("read", k), server_map' = server_map \cup {k}
        PROVE  RepliesWatched' /\ RecordsWatched'
    <3>1. k \in Conns /\ k \in AllFds /\ k \notin server_map /\ k \notin ToSet(fds["read"])
      BY <2>3, AcceptedIsNew
    <3>2. fds'["write"] = fds["write"]
      BY <1>2, <2>3, <3>1, MonitorsRead DEF OpenInv
    <3>3. server'[k].replies.items = <<>> /\ \A j \in server_map : server'[j] = server[j]
      BY <1>3, <2>3, <3>1, EmptyQueueFacts DEF FreshServer
    <3> QED BY <1>2, <1>3, <1>4, <2>1, <2>3, <3>2, <3>3 DEF RepliesWatched, RecordsWatched
  <2> QED BY <1>2, <1>7, <2>2, <2>3 DEF callback_server_connect
<1>8. CASE callback_client_connect
  <2>1. phase = "read" /\ running = ClientSocket /\ UNCHANGED <<server_map, server>>
    BY <1>8 DEF callback_client_connect
  <2>2. CASE Pcomm!CallbackRuns /\ UNCHANGED <<client_map, client>>
    <3>1. fds' = fds
      BY <2>2 DEF Pcomm!CallbackRuns, Pcomm!CallbackLeaves
    <3> QED BY <1>4, <1>5, <2>1, <2>2, <3>1
  <2>3. ASSUME NEW k, k = Min(Unused), Unused # {}, NEW c, client' = [client EXCEPT ![k] = c],
               Pcomm!CallbackMonitors("write", k), client_map' = client_map \cup {k}
        PROVE  RepliesWatched' /\ RecordsWatched'
    <3>1. k \in Conns /\ k \in AllFds /\ k \notin client_map
      BY <2>3, AcceptedIsNew
    <3>2. ToSet(fds'["write"]) = ToSet(fds["write"]) \cup {k}
      BY <1>2, <2>3, <3>1, MonitorsWrite
    <3>3. \A j \in client_map : client'[j] = client[j]
      BY <1>3, <2>3, <3>1
    <3> QED BY <1>2, <1>3, <1>4, <2>1, <2>3, <3>2, <3>3 DEF RepliesWatched, RecordsWatched
  <2> QED BY <1>2, <1>8, <2>2, <2>3 DEF callback_client_connect
<1>9. ASSUME NEW k \in Conns, add_client_record(k) PROVE RepliesWatched' /\ RecordsWatched'
  <2>1. k \in client_map /\ UNCHANGED <<server_map, server, phase, running>>
    BY <1>3, <1>9 DEF add_client_record, Pcomm!Continue
  <2>2. \/ /\ Pcomm!CallbackRemoves("write", k)
           /\ client_map' = client_map \ {k} /\ client' = [client EXCEPT ![k] = FreshClient]
        \/ /\ Pcomm!CallbackMonitors("write", k)
           /\ client_map' = client_map /\ \E q : client' = [client EXCEPT ![k].queue = q]
    BY <1>9 DEF add_client_record, ClientClosed
  <2> QED BY <1>2, <2>1, <2>2, ClientWatched
<1>10. ASSUME NEW k \in Conns, RetireOldClient(k) PROVE RepliesWatched' /\ RecordsWatched'
  <2>1. k \in client_map /\ UNCHANGED <<server_map, server, phase, running>> /\ phase = "timeout"
    BY <1>3, <1>10 DEF RetireOldClient, Pcomm!Continue
  <2>2. CASE ClientClosed(k, refs, client[k].queue)
    BY <1>2, <2>1, <2>2, ClientWatched DEF ClientClosed
  <2>3. CASE Pcomm!CallbackRuns /\ UNCHANGED <<client_map, client>>
    <3>1. fds' = fds
      BY <2>3 DEF Pcomm!CallbackRuns, Pcomm!CallbackLeaves
    <3> QED BY <1>5, <2>1, <2>3, <3>1
  <2> QED BY <1>10, <2>2, <2>3 DEF RetireOldClient
<1>11. ASSUME NEW k \in Conns, callback_client_can_send(k) PROVE RepliesWatched' /\ RecordsWatched'
  <2>1. /\ k \in client_map /\ ~NothingToSend(client[k]) /\ phase = "write"
        /\ UNCHANGED <<fds, server_map, server, client_map>>
    BY <1>11 DEF callback_client_can_send, Pcomm!CallbackRuns, Pcomm!CallbackLeaves
  <2>2. \A j \in client_map \ {k} : client'[j] = client[j]
    BY <1>3, <1>11 DEF callback_client_can_send
  <2> QED BY <1>2, <1>3, <2>1, <2>2 DEF RepliesWatched, RecordsWatched
<1>12. ASSUME NEW k \in Conns, ClientDrained(k) PROVE RepliesWatched' /\ RecordsWatched'
  <2>1. /\ k \in client_map /\ NothingToSend(client[k]) /\ phase = "write"
        /\ Pcomm!CallbackRemoves("write", k)
        /\ UNCHANGED <<server_map, server, client_map, client>>
    BY <1>12 DEF ClientDrained, contexts
  <2>2. ToSet(fds'["write"]) = ToSet(fds["write"]) \ {k}
    BY <2>1, RemovesWrite
  <2> QED BY <1>2, <1>3, <2>1, <2>2 DEF RepliesWatched, RecordsWatched
<1>13. CASE LoopStep \/ SelectReturns \/ Sigterm \/ Killed
  <2>1. UNCHANGED <<fds, server_map, server, client_map, client>>
    BY <1>13, LoopLeaves DEF contexts
  <2>2. CASE Sigterm \/ Killed
    BY <2>2 DEF Sigterm, Killed, Pcomm!Signal, Pcomm!Kill, Pcomm!Ended
  <2>3. CASE LoopStep \/ SelectReturns
    <3>1. phase # "read" \/ running = NoFd
      BY <2>3 DEF LoopStep, SelectReturns, Pcomm!LoopTop, Pcomm!Populate, Pcomm!StartCallback,
                  Pcomm!ReadNullSet, Pcomm!EndPass, Pcomm!InPass
    <3> QED BY <1>4, <1>5, <2>1, <3>1
  <2> QED BY <1>13, <2>2, <2>3
<1>14. CASE PeerStep
  <2>1. UNCHANGED <<fds, phase, running, server_map, server, client_map>>
    BY <1>14, PeersLeave DEF pcomm_vars
  <2>2. \A j \in client_map : /\ client'[j].queue = client[j].queue
                              /\ client'[j].partial = client[j].partial
    BY <1>14, PeersKeepRecords
  <2> QED BY <1>2, <2>1, <2>2 DEF RepliesWatched, RecordsWatched, NothingToSend
<1>15. CASE UNCHANGED vars
  BY <1>2, <1>15 DEF vars, pcomm_vars, contexts, RepliesWatched, RecordsWatched
<1> QED BY <1>2, <1>6, <1>7, <1>8, <1>9, <1>10, <1>11, <1>12, <1>13, <1>14, <1>15, RepliesStay
        DEF Next, ArchdStep, CallbackStep

\* While archd goes on, no reply and no telemetry record is left behind by a callback that
\* returns: the descriptor it is for is on the write list.
THEOREM WhatIsPendingIsMonitored == Spec => []PendingIsMonitored
<1>1. Init => PendingInv
  BY DEF Init, PendingInv, RepliesWatched, RecordsWatched
<1>2. LoopInv /\ OpenInv /\ TypeInv /\ PendingInv /\ [Next]_vars => PendingInv'
  BY PendingStep
<1>3. OpenInv /\ PendingInv => PendingIsMonitored
  <2> SUFFICES ASSUME OpenInv, PendingInv PROVE PendingIsMonitored
    OBVIOUS
  <2>1. NoFd \notin server_map
    BY FdAssumption DEF OpenInv, AllFds
  <2> QED BY <2>1 DEF PendingInv, PendingIsMonitored, RepliesWatched, RecordsWatched
<1> QED BY <1>1, <1>2, <1>3, LoopInvariance, OpenInvariance, TypeInvariance, PTL DEF Spec

-----------------------------------------------------------------------------
(* archd without telemetry waits with everything archived.                 *)

\* callback_archive has emptied the record queue by the time select is called.
ArchivedInv == phase \in {"populate", "select"} => record_queue.items = <<>>

LEMMA ArchivedStep == ArchivedInv /\ [Next]_vars => ArchivedInv'
<1> SUFFICES ASSUME ArchivedInv, [Next]_vars PROVE ArchivedInv'
  OBVIOUS
<1>1. CASE phase' \notin {"populate", "select"}
  BY <1>1 DEF ArchivedInv
<1>2. CASE UNCHANGED <<phase, record_queue>>
  BY <1>2 DEF ArchivedInv
<1>3. CASE ArchiveData \/ CombineLog \/ HoldLog
  BY <1>1, <1>3 DEF ArchiveData, CombineLog, HoldLog, Archiving, Pcomm!Continue
<1>4. CASE ArchiveDone
  BY <1>4 DEF ArchiveDone, records, ArchivedInv
<1>5. CASE callback_server_connect \/ callback_client_connect
  BY <1>1, <1>5 DEF callback_server_connect, callback_client_connect, Pcomm!Return
<1>6. ASSUME NEW k \in Conns, ReceivePiece(k) \/ ReceiveNothing(k) \/ callback_server_closed(k)
      PROVE  ArchivedInv'
  BY <1>1, <1>6 DEF ReceivePiece, ReceiveNothing, callback_server_closed, Receiving, Pcomm!Return
<1>7. ASSUME NEW k \in Conns, ReceiveRecord(k) \/ SendReply(k)
      PROVE  ArchivedInv'
  BY <1>1, <1>7 DEF ReceiveRecord, SendReply, Receiving, Pcomm!Continue
<1>8. ASSUME NEW k \in Conns, \/ callback_server_can_send(k) \/ callback_client_can_send(k)
                              \/ ClientDrained(k)
      PROVE  ArchivedInv'
  BY <1>1, <1>8 DEF callback_server_can_send, callback_client_can_send, ClientDrained,
                    Pcomm!Return, Pcomm!Continue
<1>9. ASSUME NEW k \in Conns, add_client_record(k) \/ RetireOldClient(k) PROVE ArchivedInv'
  BY <1>2, <1>9 DEF add_client_record, RetireOldClient, Pcomm!Continue
<1>10. CASE LoopStep
  <2>1. record_queue' = record_queue
    BY <1>10, LoopLeaves DEF records
  <2>2. phase = "populate" \/ phase' \notin {"populate", "select"}
    BY <1>10 DEF LoopStep, Pcomm!LoopTop, Pcomm!Populate, Pcomm!StartCallback, Pcomm!ReadNullSet,
                 Pcomm!EndPass, Pcomm!InPass, Pcomm!BeginPass, Pcomm!Stream
  <2> QED BY <1>1, <2>1, <2>2 DEF ArchivedInv
<1>11. CASE SelectReturns
  BY <1>1, <1>11 DEF SelectReturns, Pcomm!SelectReady, Pcomm!SelectTimeout, Pcomm!BeginPass
<1>12. CASE Sigterm \/ Killed
  BY <1>1, <1>2, <1>12 DEF Sigterm, Killed, Pcomm!Signal, Pcomm!Kill, records
<1>13. CASE Restart
  BY <1>1, <1>13 DEF Restart, Pcomm!Start
<1>14. CASE PeerStep \/ UNCHANGED vars
  BY <1>2, <1>14, PeersLeave DEF vars, pcomm_vars, records
<1> QED BY <1>3, <1>4, <1>5, <1>6, <1>7, <1>8, <1>9, <1>10, <1>11, <1>12, <1>13, <1>14
        DEF Next, ArchdStep, CallbackStep, callback_archive

\* With a telemetry_depth of 0 a record has one reference, that of the record queue or of
\* log_message, and a buffer that is in use is in one of the two.
AloneInv ==
    /\ telemetry_queue.items = <<>>
    /\ phase = "read" => fan = {}
    /\ \A k \in client_map : NothingToSend(client[k])
    /\ \A r \in Rec : /\ refs[r] <= 1
                      /\ content[r] # <<>> => r = log_message \/ r \in ToSet(record_queue.items)

\* The part of AloneInv about records: who keeps the ones in use, and steps of the archive.
LEMMA ArchiveAlone ==
    ASSUME OpenInv, OpenInv', TypeInv, TypeInv', HeldInv, AloneInv,
           ArchiveData \/ CombineLog \/ HoldLog
    PROVE  AloneInv'
<1>1. PICK h : h = Head(record_queue.items)
  OBVIOUS
<1>2. /\ record_queue.items # <<>> /\ record_queue' = Taken(record_queue)
      /\ UNCHANGED <<client_map, client, telemetry_queue, fan>>
      /\ phase' = phase
  BY DEF ArchiveData, CombineLog, HoldLog, contexts, locals, Pcomm!Continue
<1>3. h \in Rec /\ h \in ToSet(record_queue.items) /\ h # log_message /\ None \notin Rec
      /\ ToSet(record_queue'.items) = ToSet(record_queue.items) \ {h}
  BY <1>1, <1>2, TakenCount, BufferAssumption DEF HeldInv, OnceInv
<1>4. refs \in [Rec -> Nat] /\ content \in [Rec -> Seq(Message)]
  BY DEF TypeInv, RecordInv
<1>5. \A r \in Rec : r = log_message \/ r \in ToSet(record_queue.items) => refs[r] = 1
  <2> SUFFICES ASSUME NEW r \in Rec, r = log_message \/ r \in ToSet(record_queue.items)
               PROVE  refs[r] = 1
    OBVIOUS
  <2>1. Cardinality(Having(r)) \in Nat
    BY OwnedType
  <2>2. Owned(r) > 0 /\ Owned(r) \in Nat
    BY <2>1 DEF Owned, One
  <2>3. refs[r] \in Nat /\ refs[r] >= Owned(r) /\ refs[r] <= 1
    BY <1>4 DEF HeldInv, CountInv, AloneInv
  <2> QED BY <2>2, <2>3
<1>6. ASSUME NEW gone, refs' = Release(refs, gone),
             NEW c, content' = Freed(c, refs'),
             \A r \in Rec : c[r] # <<>> => content[r] # <<>>,
             \A r \in Rec : r = log_message \/ r \in ToSet(record_queue.items) =>
                r \in gone \/ r = log_message' \/ r \in ToSet(record_queue'.items)
      PROVE  \A r \in Rec : /\ refs'[r] <= 1
                            /\ content'[r] # <<>> => r = log_message' \/ r \in ToSet(record_queue'.items)
  <2> SUFFICES ASSUME NEW r \in Rec
               PROVE  /\ refs'[r] <= 1
                      /\ content'[r] # <<>> => r = log_message' \/ r \in ToSet(record_queue'.items)
    OBVIOUS
  <2>1. refs'[r] = IF r \in gone /\ refs[r] > 0 THEN refs[r] - 1 ELSE refs[r]
    BY <1>4, <1>6, ReleasedCount
  <2>2. refs[r] \in Nat /\ refs[r] <= 1
    BY <1>4 DEF AloneInv
  <2>3. content'[r] = IF refs[r] > 0 /\ refs'[r] = 0 THEN <<>> ELSE c[r]
    BY <1>6 DEF Freed
  <2>4. ASSUME content'[r] # <<>> PROVE r = log_message' \/ r \in ToSet(record_queue'.items)
    <3>1. content[r] # <<>>
      BY <1>6, <2>3, <2>4
    <3>2. r = log_message \/ r \in ToSet(record_queue.items)
      BY <3>1 DEF AloneInv
    <3>3. refs[r] = 1
      BY <1>5, <3>2
    <3>4. r \notin gone
      BY <2>1, <2>3, <2>4, <3>3
    <3> QED BY <1>6, <3>2, <3>4
  <2> QED BY <2>1, <2>2, <2>4
<1>7. \A r \in Rec : /\ refs'[r] <= 1
                     /\ content'[r] # <<>> => r = log_message' \/ r \in ToSet(record_queue'.items)
  <2>1. CASE ArchiveData
    <3>1. refs' = Release(refs, {h}) /\ content' = Freed(content, refs') /\ log_message' = log_message
      BY <1>1, <2>1 DEF ArchiveData
    <3> QED BY <1>3, <1>6, <3>1
  <2>2. CASE CombineLog
    <3>1. /\ refs' = Release(refs, {h}) /\ content' = Freed(Combined(h), refs')
          /\ log_message' = log_message /\ log_message # None
      BY <1>1, <2>2 DEF CombineLog, Combines
    <3>2. log_message \in Rec
      BY <3>1 DEF TypeInv, RecordInv
    <3>3. content[log_message] # <<>>
      <4>1. Cardinality(Having(log_message)) \in Nat
        BY OwnedType
      <4>2. Owned(log_message) > 0
        BY <4>1 DEF Owned, One
      <4> QED BY <3>2, <4>2 DEF HeldInv, CountInv
    <3>4. PICK c : c = Combined(h)
      OBVIOUS
    <3>5. \A r \in Rec : c[r] # <<>> => content[r] # <<>>
      BY <1>4, <3>2, <3>3, <3>4 DEF Combined
    <3> QED BY <1>3, <1>6, <3>1, <3>4, <3>5
  <2>3. CASE HoldLog
    <3>1. PICK late \in BOOLEAN :
            /\ log_message' = IF late THEN None ELSE h
            /\ refs' = Release(refs, {log_message} \cup (IF late THEN {h} ELSE {}))
      BY <1>1, <2>3 DEF HoldLog
    <3>2. content' = Freed(content, refs')
      BY <2>3 DEF HoldLog
    <3> QED BY <1>3, <1>6, <3>1, <3>2, ZenonT(30)
  <2> QED BY <2>1, <2>2, <2>3
<1> QED BY <1>2, <1>7 DEF AloneInv

LEMMA AloneStep ==
    ASSUME Depth = 0, LoopInv, OpenInv, OpenInv', TypeInv, TypeInv', HeldInv, AloneInv, [Next]_vars
    PROVE  AloneInv'
<1>1. /\ telemetry_queue.items = <<>> /\ (phase = "read" => fan = {})
      /\ \A k \in client_map : NothingToSend(client[k])
      /\ \A r \in Rec : /\ refs[r] <= 1
                        /\ content[r] # <<>> => r = log_message \/ r \in ToSet(record_queue.items)
      /\ refs \in [Rec -> Nat] /\ content \in [Rec -> Seq(Message)]
      /\ client \in [Conns -> ClientContext] /\ client_map \subseteq Conns
      /\ fan \subseteq client_map
  BY DEF AloneInv, TypeInv, RecordInv, ContextInv, OpenInv
<1>2. phase \notin {"read", "timeout", "returned", "null_read", "killed"} => fan = {}
  BY DEF TypeInv, FanInv, Pcomm!Ended
<1>3. ASSUME UNCHANGED records, phase' = "read" => fan' = {},
             \A k \in client_map' : k \in client_map /\ (client'[k].queue = client[k].queue
                                                        /\ client'[k].partial = client[k].partial)
      PROVE  AloneInv'
  BY <1>1, <1>3 DEF AloneInv, NothingToSend, records
<1>4. CASE UNCHANGED <<records, client_map, client>> /\ (fan' = {} \/ (phase' = phase /\ fan' \subseteq fan))
  BY <1>1, <1>3, <1>4
<1>5. CASE ArchiveData \/ CombineLog \/ HoldLog
  BY <1>5, ArchiveAlone
<1>6. CASE ArchiveDone \/ callback_server_connect
  <2>1. UNCHANGED <<records, client_map, client>> /\ fan' = fan
    BY <1>6 DEF ArchiveDone, callback_server_connect, contexts, locals
  <2>2. fan = {}
    BY <1>1, <1>2, <1>6 DEF ArchiveDone, Archiving, callback_server_connect
  <2> QED BY <1>4, <2>1, <2>2
<1>7. CASE callback_client_connect
  <2>1. /\ UNCHANGED <<content, record_queue, telemetry_queue, log_message, fan>> /\ fan = {}
    BY <1>1, <1>7 DEF callback_client_connect, locals
  <2>2. ToSet(telemetry_queue.items) = {}
    BY <1>1, EmptyQueueFacts
  <2>3. \A r \in Rec : refs'[r] = refs[r]
    BY <1>1, <1>7, <2>2 DEF callback_client_connect, RefsAfterClone
  <2>4. \A k \in client_map' : NothingToSend(client'[k])
    <3>1. CASE UNCHANGED <<client_map, client>>
      BY <1>1, <3>1
    <3>2. ASSUME NEW k, k = Min(Unused), Unused # {}, client_map' \in {client_map, client_map \cup {k}},
                 client' = [client EXCEPT ![k] = [FreshClient EXCEPT !.queue = Reversed(telemetry_queue)]]
          PROVE  \A j \in client_map' : NothingToSend(client'[j])
      <4>1. k \in Conns
        BY <3>2, AcceptedIsUnused
      <4>2. client'[k] = [FreshClient EXCEPT !.queue = Reversed(telemetry_queue)]
        BY <1>1, <3>2, <4>1
      <4>3. client'[k].queue = Reversed(telemetry_queue) /\ client'[k].partial = None
        BY <4>2 DEF FreshClient
      <4>4. Reversed(telemetry_queue).items = <<>>
        <5>1. /\ ToSet(Reversed(telemetry_queue).items) = {}
              /\ Reversed(telemetry_queue) \in QueueOf(Rec)
          BY <2>2, ReversedFacts DEF TypeInv, RecordInv
        <5>2. PICK s : s = Reversed(telemetry_queue).items
          OBVIOUS
        <5>3. s \in Seq(Rec) /\ ToSet(s) = {}
          BY <5>1, <5>2 DEF QueueOf
        <5> QED BY <5>2, <5>3, SetOfList
      <4>5. NothingToSend(client'[k])
        BY <4>3, <4>4 DEF NothingToSend
      <4>6. \A j \in Conns \ {k} : client'[j] = client[j]
        BY <1>1, <3>2
      <4> QED BY <1>1, <3>2, <4>5, <4>6
    <3> QED BY <1>7, <3>1, <3>2 DEF callback_client_connect
  <2> QED BY <1>1, <2>1, <2>3, <2>4 DEF AloneInv
<1>8. ASSUME NEW k \in Conns, ReceiveRecord(k) PROVE AloneInv'
  <2>1. UNCHANGED <<client_map, client, log_message, archived>> /\ fan' = {}
    BY <1>8, ReceivedRecord DEF ReceiveRecord
  <2>2. CASE \E m \in Message : \E n \in FreeRecs : QueueRecord(m, n)
    <3>1. PICK m \in Message, n \in FreeRecs : QueueRecord(m, n)
      BY <2>2
    <3>2. /\ n \in Rec /\ refs[n] = 0
          /\ ToSet(record_queue'.items) = ToSet(record_queue.items) \cup {n}
      BY <3>1, QueuedFacts, ReceivedIsNew
    <3>3. refs' = Hold(refs, n) /\ telemetry_queue' = telemetry_queue
      BY <3>1 DEF QueueRecord
    <3>4. \A r \in Rec : refs'[r] = IF r = n THEN refs[r] + 1 ELSE refs[r]
      BY <1>1, <3>2, <3>3, HeldCount
    <3>5. PICK c : c = [content EXCEPT ![n] = <<m>>]
      OBVIOUS
    <3>6. content' = Freed(c, refs')
      BY <3>1, <3>5 DEF QueueRecord
    <3>7. \A r \in Rec : content'[r] \in {c[r], <<>>} /\ (r # n => c[r] = content[r])
      BY <1>1, <3>5, <3>6 DEF Freed
    <3>8. \A r \in Rec : refs'[r] <= 1
      BY <1>1, <3>2, <3>4
    <3>9. \A r \in Rec : content'[r] # <<>> => r = log_message' \/ r \in ToSet(record_queue'.items)
      BY <1>1, <2>1, <3>2, <3>7
    <3> QED BY <1>1, <2>1, <3>3, <3>8, <3>9 DEF AloneInv
  <2>3. CASE UNCHANGED <<content, refs, record_queue, telemetry_queue>>
    BY <1>4, <2>1, <2>3 DEF records
  <2> QED BY <1>8, <2>2, <2>3, ReceivedRecord
<1>9. ASSUME NEW k \in Conns, \/ ReceivePiece(k) \/ SendReply(k) \/ ReceiveNothing(k)
                              \/ callback_server_closed(k)
      PROVE  AloneInv'
  <2>1. UNCHANGED <<records, client_map, client, fan>> /\ phase = "read"
    BY <1>9 DEF ReceivePiece, SendReply, ReceiveNothing, callback_server_closed, Receiving, contexts
  <2> QED BY <1>1, <1>4, <2>1
<1>10. ASSUME NEW k \in Conns, callback_server_can_send(k) \/ ClientDrained(k) PROVE AloneInv'
  <2>1. UNCHANGED <<records, client_map, client, fan>> /\ phase = "write"
    BY <1>10 DEF callback_server_can_send, ClientDrained, contexts, locals
  <2> QED BY <1>2, <1>4, <2>1
<1>11. ASSUME NEW k \in Conns, add_client_record(k) \/ callback_client_can_send(k) PROVE AloneInv'
  BY <1>1, <1>11 DEF add_client_record, callback_client_can_send, Receiving
<1>12. ASSUME NEW k \in Conns, RetireOldClient(k) PROVE AloneInv'
  <2>1. /\ k \in client_map /\ phase' = phase /\ fan' \subseteq fan
        /\ content' = Freed(content, refs')
        /\ UNCHANGED <<record_queue, telemetry_queue, log_message, archived>>
    BY <1>1, <1>12 DEF RetireOldClient, Pcomm!Continue
  <2>2. ToSet(client[k].queue.items) = {}
    BY <1>1, <2>1, EmptyQueueFacts DEF NothingToSend
  <2>3. \A r \in Rec : refs'[r] = refs[r]
    <3>1. CASE refs' = Release(refs, ToSet(client[k].queue.items))
      <4>1. refs' = Release(refs, {})
        BY <2>2, <3>1
      <4> QED BY <4>1 DEF Release
    <3>2. CASE refs' = refs
      BY <3>2
    <3> QED BY <1>12, <3>1, <3>2 DEF RetireOldClient, ClientClosed
  <2>4. \A r \in Rec : content'[r] = content[r]
    BY <1>1, <2>1, <2>3 DEF Freed
  <2>5. \A j \in client_map' : j \in client_map /\ client'[j] = client[j]
    BY <1>1, <1>12 DEF RetireOldClient, ClientClosed
  <2> QED BY <1>1, <2>1, <2>3, <2>4, <2>5 DEF AloneInv
<1>13. CASE LoopStep \/ SelectReturns \/ Sigterm \/ Killed
  <2>1. UNCHANGED <<records, client_map, client>>
    BY <1>13, LoopLeaves DEF contexts
  <2>2. CASE LoopStep
    <3>1. fan' = fan
      BY <2>2 DEF LoopStep, locals
    <3>2. phase' = "read" => phase = "read" \/ phase = "write"
      BY <2>2 DEF LoopStep, Pcomm!LoopTop, Pcomm!Populate, Pcomm!StartCallback, Pcomm!ReadNullSet,
                  Pcomm!EndPass, Pcomm!InPass, Pcomm!BeginPass, Pcomm!Stream
    <3> QED BY <1>1, <1>2, <1>3, <2>1, <3>1, <3>2
  <2>3. CASE SelectReturns
    BY <1>3, <2>1, <2>3 DEF SelectReturns, Pcomm!SelectReady, Pcomm!SelectTimeout, Pcomm!BeginPass
  <2>4. CASE Sigterm \/ Killed
    <3>1. fan' = fan /\ (phase' = phase \/ phase' # "read")
      BY <2>4 DEF Sigterm, Killed, locals, Pcomm!Signal, Pcomm!Kill
    <3> QED BY <1>1, <1>3, <2>1, <3>1
  <2> QED BY <1>13, <2>2, <2>3, <2>4
<1>14. CASE Restart
  BY <1>14, EmptyQueueFacts DEF Restart, AloneInv
<1>15. CASE PeerStep
  <2>1. UNCHANGED <<records, client_map, phase, fan>>
    BY <1>15, PeersKeepRecords
  <2>2. \A k \in client_map' : k \in client_map /\ (client'[k].queue = client[k].queue
                                                   /\ client'[k].partial = client[k].partial)
    BY <1>15, <2>1, PeersKeepRecords
  <2> QED BY <1>1, <1>3, <2>1, <2>2
<1>16. CASE UNCHANGED vars
  BY <1>4, <1>16 DEF vars, contexts, locals, pcomm_vars
<1> QED BY <1>5, <1>6, <1>7, <1>8, <1>9, <1>10, <1>11, <1>12, <1>13, <1>14, <1>15, <1>16
        DEF Next, ArchdStep, CallbackStep, callback_archive

\* archd with telemetry_depth 0 never waits in select with a record it has received and not
\* archived, nor with a buffer it has leaked: one LOG record is all that is in memory.
THEOREM AllIsArchivedBeforeWaiting == ASSUME Depth = 0 PROVE Spec => []WaitsWithAllArchived
<1>1. Init => ArchivedInv /\ AloneInv
  BY EmptyQueueFacts DEF Init, Pcomm!Init, ArchivedInv, AloneInv
<1>2. ArchivedInv /\ [Next]_vars => ArchivedInv'
  BY ArchivedStep
<1>3. LoopInv /\ OpenInv /\ OpenInv' /\ TypeInv /\ TypeInv' /\ HeldInv /\ AloneInv /\ [Next]_vars
        => AloneInv'
  BY AloneStep
<1>4. OpenInv /\ TypeInv /\ HeldInv /\ ArchivedInv /\ AloneInv => WaitsWithAllArchived
  <2> SUFFICES ASSUME OpenInv, TypeInv, HeldInv, ArchivedInv, AloneInv, phase = "select"
               PROVE  {r \in Rec : content[r] # <<>>} = {log_message} \ {None}
    BY DEF WaitsWithAllArchived
  <2>1. ToSet(record_queue.items) = {}
    BY EmptyQueueFacts DEF ArchivedInv
  <2>2. ASSUME NEW r \in Rec, content[r] # <<>> PROVE r = log_message /\ r # None
    BY <2>1, <2>2, BufferAssumption DEF AloneInv
  <2>3. ASSUME log_message # None PROVE log_message \in Rec /\ content[log_message] # <<>>
    <3>1. log_message \in Rec
      BY <2>3 DEF TypeInv, RecordInv
    <3>2. Cardinality(Having(log_message)) \in Nat
      BY OwnedType
    <3>3. Owned(log_message) > 0
      BY <3>2 DEF Owned, One
    <3> QED BY <3>1, <3>3 DEF HeldInv, CountInv
  <2> QED BY <2>2, <2>3
<1> QED BY <1>1, <1>2, <1>3, <1>4, LoopInvariance, OpenInvariance, TypeInvariance, HeldInvariance,
           PTL DEF Spec

-----------------------------------------------------------------------------
(* The rest of a record of which a part was sent.                          *)

\* A peer has one connection, and archd has closed none of which it still has the
\* descriptor, until it ends.
LinkInv ==
    /\ \A j, k \in Conns : sock[j] = sock[k] /\ sock[k] # None => j = k
    /\ phase \notin Pcomm!Ended => \A k \in Conns : sock[k] # None => link[sock[k]] = "open"

LEMMA ConnectedLink ==
    ASSUME OpenInv, TypeInv, LinkInv, phase \notin Pcomm!Ended, phase' \notin Pcomm!Ended,
           NEW p \in Peer, link[p] = "queued", NEW k \in Conns,
           sock' = [sock EXCEPT ![k] = p], link' = [link EXCEPT ![p] = "open"]
    PROVE  LinkInv'
<1>1. sock \in [Conns -> Peer \cup {None}] /\ link \in [Peer -> {"away", "queued", "open"}]
  BY DEF OpenInv, TypeInv, NetInv
<1>2. None \notin Peer /\ \A j \in Conns : sock[j] # p
  BY PeerAssumption DEF LinkInv
<1>3. \A j \in Conns : sock'[j] = IF j = k THEN p ELSE sock[j]
  BY <1>1
<1>4. \A x \in Peer : link'[x] = IF x = p THEN "open" ELSE link[x]
  BY <1>1
<1>5. \A i, j \in Conns : sock'[i] = sock'[j] /\ sock'[j] # None => i = j
  BY <1>2, <1>3 DEF LinkInv
<1>6. \A j \in Conns : sock'[j] # None => link'[sock'[j]] = "open"
  BY <1>1, <1>2, <1>3, <1>4 DEF LinkInv
<1> QED BY <1>5, <1>6 DEF LinkInv

LEMMA ClosedLink ==
    ASSUME OpenInv, TypeInv, LinkInv, phase \notin Pcomm!Ended,
           NEW k \in Conns, sock[k] \in Peer, Closed(k)
    PROVE  LinkInv'
<1>1. sock \in [Conns -> Peer \cup {None}] /\ link \in [Peer -> {"away", "queued", "open"}]
  BY DEF OpenInv, TypeInv, NetInv
<1>2. \A j \in Conns : sock'[j] = IF j = k THEN None ELSE sock[j]
  BY <1>1 DEF Closed
<1>3. \A x \in Peer : link'[x] = IF x = sock[k] THEN "away" ELSE link[x]
  BY <1>1 DEF Closed
<1>4. None \notin Peer
  BY PeerAssumption
<1>5. \A i, j \in Conns : sock'[i] = sock'[j] /\ sock'[j] # None => i = j
  BY <1>2 DEF LinkInv
<1>6. \A j \in Conns : sock'[j] # None => link'[sock'[j]] = "open"
  BY <1>1, <1>2, <1>3, <1>4 DEF LinkInv
<1> QED BY <1>5, <1>6 DEF LinkInv

\* A callback runs while the loop does.
LEMMA CallbackGoesOn ==
    ASSUME LoopInv, CallbackStep PROVE phase \notin Pcomm!Ended /\ phase' \notin Pcomm!Ended
<1>1. Pcomm!Callback
  BY CallbackOfLoop
<1>2. Pcomm!InCallback
  BY <1>1 DEF Pcomm!Callback, Pcomm!CallbackMonitors, Pcomm!CallbackRemoves, Pcomm!CallbackCloses,
              Pcomm!CallbackRuns, Pcomm!CallbackStops, Pcomm!CallbackLeaves
<1>3. phase \in {"prepare", "timeout", "error", "write", "read"}
  BY <1>2 DEF Pcomm!InCallback, LoopInv, Pcomm!Stream
<1> QED BY <1>1, <1>3 DEF Pcomm!Callback, Pcomm!Return, Pcomm!Continue, Pcomm!Ended

LEMMA LinkStep ==
    ASSUME LoopInv, OpenInv, TypeInv, LinkInv, [Next]_vars PROVE LinkInv'
<1>1. sock \in [Conns -> Peer \cup {None}] /\ link \in [Peer -> {"away", "queued", "open"}]
  BY DEF OpenInv, TypeInv, NetInv
<1>2. ASSUME UNCHANGED <<sock, link>>, phase \in Pcomm!Ended => phase' \in Pcomm!Ended
      PROVE  LinkInv'
  BY <1>2 DEF LinkInv
<1>3. CASE CallbackStep
  <2>1. phase \notin Pcomm!Ended /\ phase' \notin Pcomm!Ended
    BY <1>3, CallbackGoesOn
  <2>2. CASE callback_archive
    <3>1. UNCHANGED net
      BY <2>2 DEF callback_archive, ArchiveData, CombineLog, HoldLog, ArchiveDone
    <3> QED BY <1>2, <2>1, <3>1 DEF net
  <2>3. CASE callback_server_connect \/ callback_client_connect
    <3>1. CASE UNCHANGED net
      BY <1>2, <2>1, <3>1 DEF net
    <3>2. CASE Unused # {} /\ \E p \in Peer : /\ link[p] = "queued"
                                              /\ sock' = [sock EXCEPT ![Min(Unused)] = p]
                                              /\ link' = [link EXCEPT ![p] = "open"]
      <4>1. PICK k : k = Min(Unused)
        OBVIOUS
      <4>2. k \in Conns
        BY <3>2, <4>1, AcceptedIsUnused
      <4> QED BY <2>1, <3>2, <4>1, <4>2, ConnectedLink
    <3> QED BY <2>3, <3>1, <3>2 DEF callback_server_connect, callback_client_connect, Peer
  <2>4. ASSUME NEW k \in Conns,
               \/ ReceivePiece(k) \/ ReceiveRecord(k) \/ SendReply(k) \/ ReceiveNothing(k)
               \/ callback_server_can_send(k) \/ callback_client_can_send(k) \/ ClientDrained(k)
        PROVE  LinkInv'
    <3>1. UNCHANGED <<sock, link>>
      BY <2>4 DEF ReceivePiece, ReceiveRecord, SendReply, ReceiveNothing, callback_server_can_send,
                  callback_client_can_send, ClientDrained, net
    <3> QED BY <1>2, <2>1, <3>1
  <2>5. ASSUME NEW k \in Conns,
               callback_server_closed(k) \/ add_client_record(k) \/ RetireOldClient(k)
        PROVE  LinkInv'
    <3>1. UNCHANGED <<sock, link>> \/ Closed(k)
      BY <2>5 DEF callback_server_closed, add_client_record, RetireOldClient, ClientClosed
    <3>2. k \in server_map \cup client_map
      BY <2>5 DEF callback_server_closed, Receiving, add_client_record, RetireOldClient, OpenInv
    <3>3. sock[k] \in Peer
      BY <3>2 DEF OpenInv, Peer
    <3> QED BY <1>2, <2>1, <3>1, <3>3, ClosedLink
  <2> QED BY <1>3, <2>2, <2>3, <2>4, <2>5 DEF CallbackStep
<1>4. CASE LoopStep \/ SelectReturns \/ Sigterm \/ Killed
  <2>1. UNCHANGED <<sock, link>>
    BY <1>4, LoopLeaves DEF net
  <2>2. phase \in Pcomm!Ended => phase' \in Pcomm!Ended
    BY <1>4 DEF LoopStep, Pcomm!LoopTop, Pcomm!Populate, Pcomm!StartCallback, Pcomm!ReadNullSet,
                Pcomm!EndPass, Pcomm!InPass, SelectReturns, Sigterm, Killed, Pcomm!Signal, Pcomm!Kill,
                Pcomm!Stream, Pcomm!Ended
  <2> QED BY <1>2, <2>1, <2>2
<1>5. CASE Restart
  <2>1. \A k \in Conns : sock'[k] = None
    BY <1>5 DEF Restart
  <2> QED BY <2>1 DEF LinkInv
<1>6. CASE PeerStep
  <2>1. phase' = phase /\ sock' = sock
    BY <1>6, PeersLeave DEF pcomm_vars
  <2>2. CASE phase \in Pcomm!Ended
    BY <2>1, <2>2 DEF LinkInv
  <2>3. CASE phase \notin Pcomm!Ended
    <3>1. \A x \in Peer : link[x] = "open" => link'[x] = "open"
      BY <1>1, <1>6, <2>3 DEF PeerStep, Connect, HangUp, ConnectionLost, Listening, SendRecord,
                              GetReply, ClientReads, Elapse, net
    <3> QED BY <1>1, <2>1, <3>1 DEF LinkInv
  <2> QED BY <2>2, <2>3
<1>7. CASE UNCHANGED vars
  BY <1>2, <1>7 DEF vars, pcomm_vars, net
<1> QED BY <1>3, <1>4, <1>5, <1>6, <1>7 DEF Next, ArchdStep

\* The clients whose record of which a part was sent is still to be sent in this round: select
\* has reported them, or their callback runs.
HasRoom(k) == inbox[sock[k]] < SendRoom \/ sock[k] \in shut
Ahead(k) ==
    \/ phase = "error" /\ k \in selected["write"]
    \/ phase = "write" /\ (running = k \/ (k \in selected["write"] /\ k \in ToSet(todo)))

\* Nobody but the callback of a client writes to it, so the room select saw is still there.
ReadyInv == \A k \in client_map : client[k].partial # None /\ Ahead(k) => HasRoom(k)

\* The loop goes through the clients that select reported.
LEMMA LoopAhead ==
    ASSUME LoopInv, LoopStep, NEW k \in Conns, Ahead(k)' PROVE Ahead(k)
<1>1. k # NoFd
  BY FdAssumption DEF AllFds
<1>2. CASE Pcomm!LoopTop \/ Pcomm!Populate \/ Pcomm!ReadNullSet
  BY <1>2 DEF Pcomm!LoopTop, Pcomm!Populate, Pcomm!ReadNullSet, Ahead
<1>3. CASE Pcomm!EndPass
  <2>1. running' # k
    BY <1>1, <1>3 DEF Pcomm!EndPass, Pcomm!InPass
  <2> QED BY <1>3, <2>1 DEF Pcomm!EndPass, Pcomm!InPass, Pcomm!BeginPass, Pcomm!Stream, Ahead
<1>4. CASE Pcomm!StartCallback
  <2>1. PICK m : m = Pcomm!Min(Pcomm!Due)
    OBVIOUS
  <2>2. todo \in Seq(AllFds) /\ DOMAIN todo = 1..Len(todo) /\ Len(todo) \in Nat
    BY LenProperties DEF LoopInv, Pcomm!TypeOK
  <2>3. /\ running' = todo[m] /\ todo' = SubSeq(todo, m + 1, Len(todo))
        /\ selected' = selected /\ phase' = phase /\ Pcomm!Due # {} /\ phase \in Pcomm!Stream
    BY <1>4, <2>1 DEF Pcomm!StartCallback, Pcomm!InPass
  <2>4. m \in Pcomm!Due
    <3>1. Pcomm!Due \subseteq Nat
      BY <2>2 DEF Pcomm!Due
    <3>2. PICK D : D = Pcomm!Due
      OBVIOUS
    <3>3. Min(D) \in D
      BY <2>3, <3>1, <3>2, LeastIn
    <3> QED BY <2>1, <3>2, <3>3 DEF Min, Pcomm!Min
  <2>5. m \in 1..Len(todo) /\ todo[m] \in selected[phase] /\ todo[m] \in ToSet(todo)
    BY <2>2, <2>4 DEF Pcomm!Due, ToSet
  <2>6. ToSet(todo') \subseteq ToSet(todo)
    <3>1. Loop!ToSet(SubSeq(todo, m + 1, Len(todo))) \subseteq Loop!ToSet(todo)
      BY <2>2, <2>5, LoopAssumptions, Loop!RestDistinct DEF Pcomm!Stream, Loop!Stream
    <3> QED BY <2>3, <3>1, SameListOperators
  <2> QED BY <2>3, <2>5, <2>6 DEF Ahead
<1> QED BY <1>2, <1>3, <1>4 DEF LoopStep

\* What is sent to one peer leaves the room of the others.
LEMMA OthersRoom ==
    ASSUME OpenInv, TypeInv, NEW j \in client_map, NEW p \in Peer, p # sock[j], NEW n \in Nat,
           inbox' = InboxAfter(p, n), UNCHANGED <<sock, shut>>, HasRoom(j)
    PROVE  HasRoom(j)'
<1>1. sock[j] \in Peer
  BY DEF OpenInv, Peer
<1>2. inbox'[sock[j]] = inbox[sock[j]]
  BY <1>1, SentFacts DEF TypeInv
<1> QED BY <1>2 DEF HasRoom

LEMMA ReadyStep ==
    ASSUME LoopInv, OpenInv, TypeInv, LinkInv, ReadyInv, [Next]_vars PROVE ReadyInv'
<1> SUFFICES ASSUME NEW j \in client_map', client'[j].partial # None, Ahead(j)'
             PROVE  HasRoom(j)'
  BY DEF ReadyInv
<1>1. phase' = "error" \/ phase' = "write"
  BY DEF Ahead
<1>2. client_map \subseteq Conns /\ client \in [Conns -> ClientContext] /\ NetInv
      /\ \A k \in client_map : sock[k] \in Client /\ sock[k] \in Peer /\ sock[k] # None
  BY PeerAssumption DEF OpenInv, TypeInv, ContextInv, Peer
<1>3. ASSUME j \in client_map, client[j].partial # None, Ahead(j), UNCHANGED <<sock, shut, inbox>>
      PROVE  HasRoom(j)'
  BY <1>3 DEF ReadyInv, HasRoom
<1>4. CASE LoopStep
  <2>1. UNCHANGED <<sock, shut, inbox, client_map, client>>
    BY <1>4, LoopLeaves DEF net, contexts
  <2> QED BY <1>2, <1>3, <1>4, <2>1, LoopAhead
<1>5. CASE SelectReturns
  <2>1. UNCHANGED <<sock, shut, inbox, client_map, client>>
    BY <1>5, LoopLeaves DEF net, contexts
  <2>2. selected' = ReadyNow /\ phase' = "error"
    BY <1>1, <1>5 DEF SelectReturns, Pcomm!SelectTimeout, Pcomm!SelectReady, Pcomm!BeginPass
  <2>3. j \in ReadyNow["write"]
    BY <2>2 DEF Ahead
  <2>4. IsReady("write", j)
    BY <2>3 DEF ReadyNow, Pcomm!Stream
  <2>5. Room(sock[j]) > 0 \/ sock[j] \in shut
    BY <1>2, <2>1, <2>4 DEF IsReady
  <2>6. inbox[sock[j]] \in Nat /\ SendRoom \in Nat
    BY <1>2, <2>1, BufferAssumption DEF NetInv
  <2> QED BY <2>1, <2>5, <2>6 DEF HasRoom, Room
<1>6. CASE Sigterm \/ Killed
  <2>1. UNCHANGED <<sock, shut, inbox, client_map, client>>
    BY <1>6, LoopLeaves DEF net, contexts
  <2>2. UNCHANGED <<phase, selected, todo, running>>
    BY <1>1, <1>6 DEF Sigterm, Killed, Pcomm!Signal, Pcomm!Kill
  <2> QED BY <1>3, <2>1, <2>2 DEF Ahead
<1>7. CASE CallbackStep
  <2>1. phase' = phase /\ (running' = running \/ running' = NoFd)
    <3>1. Pcomm!Callback
      BY <1>7, CallbackOfLoop
    <3> QED BY <1>1, <3>1 DEF Pcomm!Callback, Pcomm!Return, Pcomm!Continue
  <2>2. NoFd \notin Conns /\ \A k \in Conns : phase = "write" /\ running = k => k \notin ToSet(todo)
    BY SameListOperators, FdAssumption DEF LoopInv, Pcomm!WrittenOncePerPass, AllFds
  <2>3. ASSUME NEW k \in Conns, callback_server_can_send(k) PROVE HasRoom(j)'
    <3>1. /\ UNCHANGED <<sock, shut, client_map, client, selected, todo>> /\ k \in server_map
          /\ \/ inbox' = inbox
             \/ /\ server[k].replies.items # <<>>
                /\ inbox' = InboxAfter(sock[k], Head(server[k].replies.items))
      BY <2>3 DEF callback_server_can_send, Pcomm!CallbackRemoves, Pcomm!CallbackRuns,
                  Pcomm!CallbackLeaves
    <3>2. Ahead(j) /\ HasRoom(j)
      BY <1>2, <2>1, <2>2, <3>1 DEF Ahead, ReadyInv
    <3>3. sock[k] \in Peer /\ sock[k] # sock[j]
      BY <1>2, <3>1, PeerAssumption DEF OpenInv, Peer
    <3>4. CASE inbox' = inbox
      BY <3>1, <3>2, <3>4 DEF HasRoom
    <3>5. CASE /\ server[k].replies.items # <<>>
               /\ inbox' = InboxAfter(sock[k], Head(server[k].replies.items))
      <4>1. PICK q : q = server[k].replies
        OBVIOUS
      <4>2. q \in QueueOf({1, 2})
        BY <4>1 DEF TypeInv, ContextInv, ServerContext
      <4>3. Head(q.items) \in {1, 2}
        BY <3>5, <4>1, <4>2, TakenFacts
      <4>4. Head(q.items) \in Nat
        BY <4>3
      <4> QED BY <3>1, <3>2, <3>3, <3>5, <4>1, <4>4, OthersRoom
    <3> QED BY <3>1, <3>4, <3>5
  <2>4. ASSUME NEW k \in Conns, callback_client_can_send(k) PROVE HasRoom(j)'
    <3>1. /\ UNCHANGED <<sock, shut, client_map, selected, todo>> /\ k \in client_map
          /\ phase = "write" /\ running = k
          /\ inbox' = InboxAfter(sock[k], Left(client[k]))
      BY <2>4 DEF callback_client_can_send, Pcomm!CallbackRuns, Pcomm!CallbackLeaves
    <3>2. j # k
      <4> SUFFICES ASSUME j = k PROVE FALSE
        OBVIOUS
      <4>1. running' = NoFd
        BY <1>2, <2>4, <3>1 DEF callback_client_can_send, WithoutCurrent, Pcomm!Return
      <4> QED BY <2>1, <2>2, <3>1, <4>1 DEF Ahead
    <3>3. client'[j] = client[j]
      BY <1>2, <2>4, <3>1, <3>2 DEF callback_client_can_send
    <3>4. Ahead(j) /\ HasRoom(j)
      BY <1>2, <2>1, <2>2, <3>1, <3>3 DEF Ahead, ReadyInv
    <3>5. sock[k] \in Peer /\ sock[k] # sock[j]
      BY <1>2, <3>1, <3>2 DEF LinkInv
    <3>6. Left(client[k]) \in Nat
      <4>1. client[k].offset \in Nat /\ client[k].offset < RecordUnits
        BY <1>2, <3>1, ClientParts
      <4> QED BY <4>1, BufferAssumption DEF Left
    <3> QED BY <3>1, <3>4, <3>5, <3>6, OthersRoom
  <2>5. ASSUME NEW k \in Conns, ClientDrained(k) PROVE HasRoom(j)'
    <3>1. UNCHANGED <<sock, shut, inbox, client_map, client, selected, todo>>
      BY <2>5, SMTT(30)
         DEF ClientDrained, net, contexts, Pcomm!CallbackRemoves, Pcomm!CallbackLeaves
    <3> QED BY <1>2, <1>3, <2>1, <2>2, <3>1 DEF Ahead
  <2>6. \E k \in Conns :
           callback_server_can_send(k) \/ callback_client_can_send(k) \/ ClientDrained(k)
    BY <1>1, <1>7, <2>1, ZenonT(30)
       DEF CallbackStep, callback_archive, ArchiveData, CombineLog, HoldLog, ArchiveDone, Archiving,
           callback_server_connect, callback_client_connect, Receiving, ReceivePiece, ReceiveRecord,
           SendReply, ReceiveNothing, callback_server_closed, add_client_record, RetireOldClient
  <2> QED BY <2>3, <2>4, <2>5, <2>6
<1>8. CASE Restart
  BY <1>1, <1>8 DEF Restart, Pcomm!Start
<1>9. CASE PeerStep
  <2>1. UNCHANGED <<phase, selected, todo, running, sock, client_map>>
    BY <1>9, PeersLeave DEF pcomm_vars
  <2>2. client'[j].partial = client[j].partial
    BY <1>9, <2>1, PeersKeepRecords
  <2>3. HasRoom(j) /\ sock[j] \in Client /\ sock[j] \in Peer
    BY <1>2, <2>1, <2>2 DEF Ahead, ReadyInv
  <2>4. phase \notin Pcomm!Ended
    BY <1>1, <2>1 DEF Pcomm!Ended
  <2>5. inbox[sock[j]] \in 0..SendRoom /\ SendRoom \in Nat /\ inbox \in [Peer -> 0..SendRoom]
    BY <1>2, <2>3, BufferAssumption DEF NetInv
  <2>6. shut \subseteq shut' /\ (inbox' = inbox \/ \E p \in Peer : inbox' = [inbox EXCEPT ![p] = @ - 1])
    BY <1>9, <2>4 DEF PeerStep, Connect, HangUp, ConnectionLost, Listening, SendRecord, GetReply,
                      ClientReads, Elapse, net, Peer
  <2>7. inbox'[sock[j]] = inbox[sock[j]] \/ inbox'[sock[j]] = inbox[sock[j]] - 1
    BY <2>3, <2>5, <2>6
  <2> QED BY <2>1, <2>3, <2>5, <2>6, <2>7 DEF HasRoom
<1>10. CASE UNCHANGED vars
  BY <1>3, <1>10 DEF vars, pcomm_vars, net, contexts, Ahead
<1> QED BY <1>4, <1>5, <1>6, <1>7, <1>8, <1>9, <1>10 DEF Next, ArchdStep

\* The invariants hold of every behaviour of archd.
LEMMA ReadyInvariance == Spec => [](LinkInv /\ ReadyInv)
<1>1. Init => LinkInv /\ ReadyInv
  BY DEF Init, LinkInv, ReadyInv
<1>2. LoopInv /\ OpenInv /\ TypeInv /\ LinkInv /\ ReadyInv /\ [Next]_vars => LinkInv' /\ ReadyInv'
  BY LinkStep, ReadyStep
<1> QED BY <1>1, <1>2, LoopInvariance, OpenInvariance, TypeInvariance, PTL DEF Spec

\* The step that ends a record of which a part was sent.
Finishes(k) ==
    client[k].partial # None /\ client'[k].partial = None =>
        \/ sock[k] \in shut
        \/ inbox'[sock[k]] = inbox[sock[k]] + RecordUnits - client[k].offset

LEMMA FinishStep ==
    ASSUME LoopInv, OpenInv, TypeInv, LinkInv, ReadyInv, [Next]_vars,
           NEW j \in client_map \cap client_map'
    PROVE  Finishes(j)
<1>1. client_map \subseteq Conns /\ client \in [Conns -> ClientContext] /\ NetInv
      /\ \A k \in client_map : sock[k] \in Peer
  BY DEF OpenInv, TypeInv, ContextInv, Peer
<1>2. ASSUME client'[j].partial = client[j].partial PROVE Finishes(j)
  BY <1>2 DEF Finishes
<1>3. CASE client' = client
  BY <1>2, <1>3
<1>4. CASE callback_client_connect
  <2>1. CASE client' = client
    BY <1>3, <2>1
  <2>2. ASSUME NEW k, k = Min(Unused), Unused # {}, NEW c, client' = [client EXCEPT ![k] = c]
        PROVE  Finishes(j)
    <3>1. k \notin client_map
      BY <2>2, AcceptedIsNew
    <3> QED BY <1>1, <1>2, <2>2, <3>1
  <2> QED BY <1>4, <2>1, <2>2 DEF callback_client_connect
<1>5. ASSUME NEW k \in Conns, add_client_record(k) \/ RetireOldClient(k) PROVE Finishes(j)
  <2>1. CASE client_map' = client_map \ {k} /\ client' = [client EXCEPT ![k] = FreshClient]
    BY <1>1, <1>2, <2>1
  <2>2. ASSUME NEW q, client' = [client EXCEPT ![k].queue = q] PROVE Finishes(j)
    <3>1. client[k] \in [queue : QueueOf(Rec), partial : Rec \cup {None}, offset : Nat, age : Nat]
      BY <1>1 DEF ClientContext
    <3>2. client' = [client EXCEPT ![k] = [client[k] EXCEPT !.queue = q]]
      BY <2>2
    <3> QED BY <1>1, <1>2, <3>1, <3>2
  <2> QED BY <1>3, <1>5, <2>1, <2>2 DEF add_client_record, RetireOldClient, ClientClosed
<1>6. ASSUME NEW k \in Conns, callback_client_can_send(k) PROVE Finishes(j)
  <2>1. CASE j # k
    <3>1. client'[j] = client[j]
      BY <1>1, <1>6, <2>1 DEF callback_client_can_send
    <3> QED BY <1>2, <3>1
  <2>2. CASE j = k
    <3> SUFFICES ASSUME client[k].partial # None, client'[k].partial = None, sock[k] \notin shut
                 PROVE  inbox'[sock[k]] = inbox[sock[k]] + RecordUnits - client[k].offset
      BY <2>2 DEF Finishes
    <3>1. PICK p, n : p = sock[k] /\ n = Left(client[k])
      OBVIOUS
    <3>2. /\ client[k].offset \in Nat /\ client[k].offset < RecordUnits /\ RecordUnits \in Nat
          /\ client[k].partial \in Rec
      BY <1>1, ClientParts, BufferAssumption
    <3>3. n = RecordUnits - client[k].offset /\ n \in Nat /\ n > 0
      BY <3>1, <3>2 DEF Left
    <3>4. p \in Peer /\ inbox[p] \in 0..SendRoom /\ SendRoom \in Nat /\ inbox \in [Peer -> 0..SendRoom]
      BY <1>1, <2>2, <3>1, BufferAssumption DEF NetInv
    <3>5. inbox[p] < SendRoom
      BY <1>6, <2>2, <3>1 DEF callback_client_can_send, ReadyInv, Ahead, HasRoom
    <3>6. ~SentShort(p, n)
      <4> SUFFICES ASSUME SentShort(p, n) PROVE client'[k].partial # None
        OBVIOUS
      <4>1. client'[k].partial = Current(client[k])
        BY <1>1, <1>6, <3>1 DEF callback_client_can_send, WithoutCurrent
      <4> QED BY <3>2, <4>1, BufferAssumption DEF Current
    <3>7. Sent(p, n) = n
      BY <3>1, <3>3, <3>4, <3>5, <3>6 DEF Sent, SentShort, Room
    <3>8. inbox' = [inbox EXCEPT ![p] = @ + n]
      <4>1. inbox' = InboxAfter(p, n) /\ p \notin shut
        BY <1>6, <3>1 DEF callback_client_can_send
      <4>2. InboxAfter(p, n) = IF p \in shut \/ n < 0 THEN inbox ELSE [inbox EXCEPT ![p] = @ + n]
        BY <3>7 DEF InboxAfter
      <4> QED BY <3>3, <4>1, <4>2
    <3>9. inbox'[p] = inbox[p] + n
      BY <3>4, <3>8
    <3> QED BY <3>1, <3>2, <3>3, <3>4, <3>9
  <2> QED BY <2>1, <2>2
<1>7. ASSUME NEW k \in Conns,
             \/ ReceivePiece(k) \/ ReceiveRecord(k) \/ SendReply(k) \/ ReceiveNothing(k)
             \/ callback_server_closed(k) \/ callback_server_can_send(k) \/ ClientDrained(k)
      PROVE  Finishes(j)
  BY <1>3, <1>7 DEF ReceivePiece, ReceiveRecord, SendReply, ReceiveNothing, callback_server_closed,
                    callback_server_can_send, ClientDrained, contexts
<1>8. CASE callback_archive \/ callback_server_connect
  BY <1>3, <1>8 DEF callback_archive, ArchiveData, CombineLog, HoldLog, ArchiveDone,
                    callback_server_connect, contexts
<1>9. CASE LoopStep \/ SelectReturns \/ Sigterm \/ Killed
  BY <1>3, <1>9, LoopLeaves DEF contexts
<1>10. CASE Restart
  BY <1>10 DEF Restart
<1>11. CASE PeerStep
  BY <1>2, <1>11, PeersKeepRecords
<1>12. CASE UNCHANGED vars
  BY <1>3, <1>12 DEF vars, contexts
<1> QED BY <1>4, <1>5, <1>6, <1>7, <1>8, <1>9, <1>10, <1>11, <1>12 DEF Next, ArchdStep, CallbackStep

\* A record of which a part was sent is finished: the turn of callback_client_can_send that
\* puts it away has sent all that was left of it, or the client has gone.
THEOREM PartialsAreFinished == Spec => PartialIsFinished
<1>1. LoopInv /\ OpenInv /\ TypeInv /\ LinkInv /\ ReadyInv /\ [Next]_vars
        => [\A k \in client_map \cap client_map' :
              client[k].partial # None /\ client'[k].partial = None =>
                \/ sock[k] \in shut
                \/ inbox'[sock[k]] = inbox[sock[k]] + RecordUnits - client[k].offset]_vars
  BY FinishStep DEF Finishes
<1> QED BY <1>1, LoopInvariance, OpenInvariance, TypeInvariance, ReadyInvariance, PTL
        DEF Spec, PartialIsFinished

-----------------------------------------------------------------------------
(* How often a message is in a set of records.                             *)

Places(m, c, R) == {p \in UNION {{r} \X DOMAIN c[r] : r \in R} : c[p[1]][p[2]] = m}

LEMMA PlaceOf ==
    ASSUME NEW m, NEW c, NEW R
    PROVE  /\ Times(m, c, R) = Cardinality(Places(m, c, R))
           /\ \A r, i : <<r, i>> \in Places(m, c, R) <=> r \in R /\ i \in DOMAIN c[r] /\ c[r][i] = m
           /\ \A p \in Places(m, c, R) : p = <<p[1], p[2]>>
<1>1. \A r, i : <<r, i>> \in UNION {{x} \X DOMAIN c[x] : x \in R} <=> r \in R /\ i \in DOMAIN c[r]
  OBVIOUS
<1>2. \A p \in UNION {{x} \X DOMAIN c[x] : x \in R} : p = <<p[1], p[2]>>
  OBVIOUS
<1>3. \A r, i : <<r, i>>[1] = r /\ <<r, i>>[2] = i
  OBVIOUS
<1> QED BY <1>1, <1>2, <1>3 DEF Places, Times

\* A finite number of records of finite length.
LEMMA PlacesFinite ==
    ASSUME NEW S, NEW m, NEW c, NEW R, IsFiniteSet(R), \A r \in R : c[r] \in Seq(S)
    PROVE  IsFiniteSet(Places(m, c, R)) /\ Times(m, c, R) \in Nat
<1>1. ASSUME NEW r \in R PROVE IsFiniteSet({r} \X DOMAIN c[r])
  <2>1. DOMAIN c[r] = 1..Len(c[r]) /\ Len(c[r]) \in Nat
    BY LenProperties
  <2>2. IsFiniteSet(DOMAIN c[r])
    BY <2>1, FS_Interval
  <2>3. IsFiniteSet({r})
    BY FS_Singleton
  <2> QED BY <2>2, <2>3, FS_Product
<1> DEFINE U == {{r} \X DOMAIN c[r] : r \in R}
           f == [r \in R |-> {r} \X DOMAIN c[r]]
<1>2. IsFiniteSet(U)
  <2>1. f \in Surjection(R, U)
    BY DEF Surjection
  <2> HIDE DEF f, U
  <2> QED BY <2>1, FS_Surjection
<1>3. \A T \in U : IsFiniteSet(T)
  BY <1>1
<1>4. IsFiniteSet(UNION U)
  <2> HIDE DEF U
  <2> QED BY <1>2, <1>3, FS_UNION
<1>5. Places(m, c, R) \in SUBSET (UNION U)
  BY DEF Places
<1>6. IsFiniteSet(Places(m, c, R))
  <2> HIDE DEF U
  <2> QED BY <1>4, <1>5, FS_Subset
<1> QED BY <1>6, FS_CardinalityType DEF Places, Times

LEMMA TimesOfBoth ==
    ASSUME NEW S, NEW m, NEW c, NEW Q, NEW R, IsFiniteSet(Q), IsFiniteSet(R), Q \cap R = {},
           \A r \in Q \cup R : c[r] \in Seq(S)
    PROVE  Times(m, c, Q \cup R) = Times(m, c, Q) + Times(m, c, R)
<1>1. IsFiniteSet(Places(m, c, Q)) /\ IsFiniteSet(Places(m, c, R))
  BY PlacesFinite
<1>2. Places(m, c, Q \cup R) = Places(m, c, Q) \cup Places(m, c, R)
  BY DEF Places
<1>3. Places(m, c, Q) \cap Places(m, c, R) = {}
  <2> SUFFICES ASSUME NEW p \in Places(m, c, Q), p \in Places(m, c, R) PROVE FALSE
    OBVIOUS
  <2>1. p[1] \in Q /\ p[1] \in R
    BY PlaceOf
  <2> QED BY <2>1
<1>4. Cardinality(Places(m, c, Q) \cap Places(m, c, R)) = 0
  BY <1>3, FS_EmptySet
<1>5. /\ Cardinality(Places(m, c, Q)) \in Nat /\ Cardinality(Places(m, c, R)) \in Nat
  BY <1>1, FS_CardinalityType
<1>6. Cardinality(Places(m, c, Q) \cup Places(m, c, R)) =
        Cardinality(Places(m, c, Q)) + Cardinality(Places(m, c, R))
          - Cardinality(Places(m, c, Q) \cap Places(m, c, R))
  BY <1>1, FS_Union
<1>7. Cardinality(Places(m, c, Q) \cup Places(m, c, R)) =
        Cardinality(Places(m, c, Q)) + Cardinality(Places(m, c, R))
  BY ONLY <1>4, <1>5, <1>6
<1> QED BY <1>2, <1>7, PlaceOf, ZenonT(30)

LEMMA TimesOfSame ==
    ASSUME NEW m, NEW c, NEW d, NEW R, \A r \in R : c[r] = d[r]
    PROVE  Times(m, c, R) = Times(m, d, R)
<1>1. \A p : p \in Places(m, c, R) <=> p \in Places(m, d, R)
  BY DEF Places
<1> QED BY <1>1, PlaceOf

\* In the messages s of one record.
TimesIn(m, s) == Cardinality({i \in DOMAIN s : s[i] = m})

LEMMA TimesOfOne ==
    ASSUME NEW S, NEW m, NEW c, NEW r, NEW R, R = {r}, c[r] \in Seq(S)
    PROVE  Times(m, c, R) = TimesIn(m, c[r])
<1>1. IsFiniteSet(Places(m, c, R))
  <2>1. IsFiniteSet(R)
    BY FS_Singleton
  <2> QED BY <2>1, PlacesFinite
<1> DEFINE D == {i \in DOMAIN c[r] : c[r][i] = m}
           f == [p \in Places(m, c, R) |-> p[2]]
<1>2. \A p \in Places(m, c, R) : p = <<r, p[2]>> /\ p[2] \in D
  <2> SUFFICES ASSUME NEW p \in Places(m, c, R) PROVE p = <<r, p[2]>> /\ p[2] \in D
    OBVIOUS
  <2>1. p = <<p[1], p[2]>>
    BY PlaceOf
  <2>2. p[1] \in R /\ p[2] \in DOMAIN c[p[1]] /\ c[p[1]][p[2]] = m
    BY <2>1, PlaceOf
  <2> QED BY <2>1, <2>2
<1>3. \A i \in D : <<r, i>> \in Places(m, c, R)
  BY PlaceOf
<1>4. f \in Bijection(Places(m, c, R), D)
  <2>1. f \in Injection(Places(m, c, R), D)
    BY <1>2, ZenonT(30) DEF Injection, IsInjective
  <2>2. \A i \in D : \E p \in Places(m, c, R) : f[p] = i
    BY <1>3
  <2>3. f \in Surjection(Places(m, c, R), D)
    BY <1>2, <2>2 DEF Surjection
  <2> QED BY <2>1, <2>3 DEF Bijection
<1>5. ExistsBijection(Places(m, c, R), D)
  BY <1>4 DEF ExistsBijection
<1> HIDE DEF D
<1>6. Cardinality(D) = Cardinality(Places(m, c, R))
  BY <1>1, <1>5, FS_Bijection
<1> QED BY <1>6, PlaceOf DEF D, TimesIn

LEMMA TimesOfNone ==
    ASSUME NEW m, NEW c PROVE Times(m, c, {}) = 0
<1>1. Places(m, c, {}) = {}
  BY DEF Places
<1> QED BY <1>1, PlaceOf, FS_EmptySet

\* A record of one message more.
LEMMA TimesOfLonger ==
    ASSUME NEW S, NEW m, NEW s \in Seq(S), NEW x \in S
    PROVE  TimesIn(m, s \o <<x>>) = TimesIn(m, s) + One(x = m)
<1>1. /\ Len(s) \in Nat /\ DOMAIN s = 1..Len(s)
  BY LenProperties
<1>2. <<x>> \in Seq(S) /\ Len(<<x>>) = 1 /\ <<x>>[1] = x
  OBVIOUS
<1>3. PICK t : t = s \o <<x>>
  OBVIOUS
<1>4. /\ t \in Seq(S) /\ Len(t) = Len(s) + 1
      /\ \A i \in 1..(Len(s) + 1) : t[i] = IF i <= Len(s) THEN s[i] ELSE <<x>>[i - Len(s)]
  BY <1>2, <1>3, ConcatProperties
<1>5. DOMAIN t = 1..(Len(s) + 1)
  BY <1>4, LenProperties
<1>6. /\ \A i \in 1..Len(s) : i \in 1..(Len(s) + 1) /\ t[i] = s[i]
      /\ t[Len(s) + 1] = x
      /\ \A i \in 1..(Len(s) + 1) : i \in 1..Len(s) \/ i = Len(s) + 1
      /\ Len(s) + 1 \notin 1..Len(s) /\ Len(s) + 1 \in 1..(Len(s) + 1)
  <2>1. PICK n \in Nat : n = Len(s)
    BY <1>1
  <2>2. <<x>>[n + 1 - n] = x
    BY <1>2
  <2> QED BY <1>4, <2>1, <2>2, SMTT(30)
<1>7. PICK l : l = Len(s) + 1
  OBVIOUS
<1> DEFINE C == {i \in DOMAIN s : s[i] = m}
           D == {i \in DOMAIN t : t[i] = m}
<1>8. x = m => D = C \cup {l}
  BY <1>1, <1>5, <1>6, <1>7
<1>9. x # m => D = C
  BY <1>1, <1>5, <1>6, <1>7
<1>10. l \notin C
  BY <1>1, <1>6, <1>7
<1>11. IsFiniteSet(C)
  <2>1. 1 \in Int /\ Len(s) \in Int
    BY <1>1
  <2>2. IsFiniteSet(1..Len(s))
    BY <2>1, FS_Interval
  <2>3. C \in SUBSET (1..Len(s))
    BY <1>1
  <2> HIDE DEF C
  <2> QED BY <2>2, <2>3, FS_Subset
<1> HIDE DEF C, D
<1>12. x = m => Cardinality(D) = Cardinality(C) + 1
  BY <1>8, <1>10, <1>11, FS_AddElement
<1>13. Cardinality(C) \in Nat
  BY <1>11, FS_CardinalityType
<1>14. TimesIn(m, s) = Cardinality(C) /\ TimesIn(m, t) = Cardinality(D)
  BY DEF C, D, TimesIn
<1> QED BY <1>3, <1>9, <1>12, <1>13, <1>14 DEF One

\* The message of a record that has one.
LEMMA TimesOfSingle ==
    ASSUME NEW S, NEW m, NEW x \in S PROVE TimesIn(m, <<x>>) = One(x = m)
<1>1. DOMAIN <<x>> = {1} /\ <<x>>[1] = x
  OBVIOUS
<1>2. x = m => {i \in DOMAIN <<x>> : <<x>>[i] = m} = {1}
  BY <1>1
<1>3. x # m => {i \in DOMAIN <<x>> : <<x>>[i] = m} = {}
  BY <1>1
<1> QED BY <1>2, <1>3, FS_Singleton, FS_EmptySet DEF TimesIn, One

LEMMA TimesPositive ==
    ASSUME NEW S, NEW m, NEW c, NEW R, IsFiniteSet(R), \A r \in R : c[r] \in Seq(S),
           NEW r \in R, m \in ToSet(c[r])
    PROVE  Times(m, c, R) > 0
<1>1. PICK i \in DOMAIN c[r] : c[r][i] = m
  BY DEF ToSet
<1>2. Places(m, c, R) # {}
  BY <1>1, PlaceOf
<1>3. IsFiniteSet(Places(m, c, R)) /\ Times(m, c, R) \in Nat
  BY PlacesFinite
<1> QED BY <1>2, <1>3, PlaceOf, FS_EmptySet

\* A record that is archived.
LEMMA TimesArchived ==
    ASSUME NEW S, NEW m, NEW a \in Seq(Seq(S)), NEW s \in Seq(S)
    PROVE  Times(m, Append(a, s), DOMAIN Append(a, s)) = Times(m, a, DOMAIN a) + TimesIn(m, s)
<1>1. PICK b : b = Append(a, s)
  OBVIOUS
<1>2. PICK n : n = Len(a)
  OBVIOUS
<1>3. n \in Nat /\ DOMAIN a = 1..n /\ \A i \in 1..n : a[i] \in Seq(S)
  BY <1>2, LenProperties, ElementOfSeq
<1>4. b \in Seq(Seq(S)) /\ Len(b) = n + 1 /\ (\A i \in 1..n : b[i] = a[i]) /\ b[n + 1] = s
  BY <1>1, <1>2, AppendProperties
<1>5. PICK l, D : l = n + 1 /\ D = 1..n
  OBVIOUS
<1>6. DOMAIN b = D \cup {l} /\ D \cap {l} = {}
  <2>1. DOMAIN b = 1..(n + 1)
    BY <1>4, LenProperties
  <2> QED BY <1>3, <1>5, <2>1
<1>7. IsFiniteSet(D) /\ IsFiniteSet({l})
  <2>1. 1 \in Int /\ n \in Int
    BY <1>3
  <2> QED BY <1>5, <2>1, FS_Interval, FS_Singleton
<1>8. \A i \in D \cup {l} : b[i] \in Seq(S)
  BY <1>3, <1>4, <1>5
<1>9. Times(m, b, D \cup {l}) = Times(m, b, D) + Times(m, b, {l})
  BY <1>6, <1>7, <1>8, TimesOfBoth
<1>10. Times(m, b, D) = Times(m, a, D)
  BY <1>4, <1>5, TimesOfSame, ZenonT(30)
<1>11. PICK L : L = {l}
  OBVIOUS
<1>12. Times(m, b, L) = TimesIn(m, b[l])
  <2>1. b[l] \in Seq(S)
    BY <1>4, <1>5
  <2> QED BY <1>11, <2>1, TimesOfOne
<1> QED BY <1>1, <1>3, <1>4, <1>5, <1>6, <1>9, <1>10, <1>11, <1>12

-----------------------------------------------------------------------------
(* What a step does to the messages archd has accepted.                    *)

\* The messages of the archived records a, of the LOG held back, of the record queue.
MessagesOf(a) == UNION {ToSet(a[i]) : i \in DOMAIN a}
HeldBack == IF log_message = None THEN {} ELSE ToSet(content[log_message])
Queued == {content[r][1] : r \in ToSet(record_queue.items)}
Accepted == MessagesOf(archived) \cup HeldBack \cup Queued

SameRecords ==
    /\ UNCHANGED <<archived, log_message>> /\ record_queue'.items = record_queue.items
    /\ \A r \in InMemory : content'[r] = content[r]

\* The oldest record of the record queue, with message m, leaves it.
Takes(m) ==
    /\ record_queue.items # <<>>
    /\ content[Head(record_queue.items)] = <<m>>
    /\ record_queue'.items = Tail(record_queue.items)
    /\ \A r \in ToSet(record_queue'.items) : content'[r] = content[r]

Stores(m) ==
    /\ Takes(m) /\ KindOf(m) # "log"
    /\ archived' = Append(archived, <<m>>)
    /\ log_message' = log_message
    /\ log_message # None => content'[log_message] = content[log_message]

AddsToHeld(m) ==
    /\ Takes(m) /\ KindOf(m) = "log"
    /\ log_message # None /\ UNCHANGED <<log_message, archived>>
    /\ content'[log_message] = content[log_message] \o <<m>>

\* The archive with the LOG that was held back.
WithHeld == IF log_message = None THEN archived ELSE Append(archived, content[log_message])

ReplacesHeld(m) ==
    /\ Takes(m) /\ KindOf(m) = "log"
    /\ \/ /\ archived' = Append(WithHeld, <<m>>)
          /\ log_message' = None
       \/ /\ archived' = WithHeld
          /\ log_message' = Head(record_queue.items)
          /\ content'[Head(record_queue.items)] = <<m>>

Receives(m) ==
    /\ UNCHANGED <<archived, log_message>>
    /\ \E n \in Rec \ InMemory :
          /\ record_queue'.items = Append(record_queue.items, n)
          /\ content'[n] = <<m>>
    /\ \A r \in InMemory : content'[r] = content[r]

Forgets == archived' = archived /\ record_queue'.items = <<>> /\ log_message' = None

\* The message of the record that is complete with what the socket of k has.
FirstOf(k) == (server[k].buffer \o SubSeq(Incoming(k), 1, Wanted(k)))[1]

LEMMA InMemoryFacts ==
    ASSUME TypeInv
    PROVE  /\ record_queue.items \in Seq(Rec)
           /\ ToSet(record_queue.items) \subseteq Rec /\ InMemory \subseteq Rec
           /\ IsFiniteSet(InMemory) /\ IsFiniteSet(ToSet(record_queue.items))
           /\ None \notin Rec
           /\ content \in [Rec -> Seq(Message)]
           /\ log_message \in Rec \cup {None}
<1>1. /\ record_queue.items \in Seq(Rec) /\ content \in [Rec -> Seq(Message)]
      /\ log_message \in Rec \cup {None} /\ None \notin Rec
  BY BufferAssumption DEF TypeInv, RecordInv, QueueOf
<1>2. PICK s : s = record_queue.items
  OBVIOUS
<1>3. s \in Seq(Rec) /\ Len(s) \in Nat /\ DOMAIN s = 1..Len(s) /\ ToSet(s) \subseteq Rec
  BY <1>1, <1>2, LenProperties, SetOfList
<1>4. IsFiniteSet(ToSet(s))
  <2>1. IsFiniteSet(1..Len(s))
    <3>1. 1 \in Int /\ Len(s) \in Int
      BY <1>3
    <3> QED BY <3>1, FS_Interval
  <2>2. s \in Surjection(1..Len(s), ToSet(s))
    <3>1. s \in [1..Len(s) -> ToSet(s)]
      BY <1>3 DEF ToSet
    <3>2. \A x \in ToSet(s) : \E i \in 1..Len(s) : s[i] = x
      BY <1>3, SetOfList
    <3> QED BY <3>1, <3>2 DEF Surjection
  <2> QED BY <2>1, <2>2, FS_Surjection
<1>5. IsFiniteSet(InMemory)
  <2>1. IsFiniteSet({log_message})
    BY FS_Singleton
  <2>2. {log_message} \ {None} \in SUBSET {log_message}
    OBVIOUS
  <2>3. IsFiniteSet({log_message} \ {None})
    BY <2>1, <2>2, FS_Subset
  <2> QED BY <1>2, <1>4, <2>3, FS_Union DEF InMemory
<1>6. InMemory \subseteq Rec
  BY <1>1, <1>2, <1>3 DEF InMemory
<1> QED BY <1>1, <1>2, <1>3, <1>4, <1>5, <1>6

\* What is in memory is not given back.
LEMMA KeptInMemory ==
    ASSUME OpenInv', TypeInv', HeldInv'
    PROVE  /\ \A r \in InMemory' : r \in Rec /\ content'[r] # <<>>
           /\ \A c : content' = Freed(c, refs') => \A r \in InMemory' : content'[r] = c[r]
<1>1. ASSUME NEW r \in InMemory' PROVE r \in Rec /\ content'[r] # <<>>
  <2>1. r \in Rec
    <3>1. record_queue'.items \in Seq(Rec) /\ log_message' \in Rec \cup {None}
      BY DEF TypeInv, RecordInv, QueueOf
    <3>2. ToSet(record_queue'.items) \subseteq Rec
      BY <3>1, SetOfList
    <3> QED BY <3>1, <3>2 DEF InMemory
  <2>2. Cardinality(Having(r)') \in Nat
    BY OwnedTypeNext
  <2>3. r \in ToSet(record_queue'.items) \/ log_message' = r
    BY DEF InMemory
  <2>4. Owned(r)' > 0
    BY <2>2, <2>3 DEF Owned, One
  <2> QED BY <2>1, <2>4 DEF HeldInv, CountInv
<1>2. ASSUME NEW c, content' = Freed(c, refs'), NEW r \in InMemory' PROVE content'[r] = c[r]
  BY <1>1, <1>2 DEF Freed
<1> QED BY <1>1, <1>2

\* callback_archive.
LEMMA ArchiveTurn ==
    ASSUME OpenInv, OpenInv', TypeInv, TypeInv', HeldInv, HeldInv', LengthInv,
           archived \in Seq(Seq(Message)), ArchiveData \/ CombineLog \/ HoldLog
    PROVE  \E m \in Message : /\ Stores(m) \/ AddsToHeld(m) \/ ReplacesHeld(m)
                              /\ Head(record_queue.items) # log_message
<1>1. PICK h : h = Head(record_queue.items)
  OBVIOUS
<1>2. record_queue.items # <<>> /\ record_queue' = Taken(record_queue)
  BY DEF ArchiveData, CombineLog, HoldLog
<1>3. h \in Rec /\ h \in ToSet(record_queue.items) /\ h # log_message
      /\ ToSet(record_queue'.items) = ToSet(record_queue.items) \ {h}
  BY <1>1, <1>2, TakenCount DEF HeldInv, OnceInv
<1>4. record_queue'.items = Tail(record_queue.items)
  BY <1>2 DEF Taken
<1>5. content[h] \in Seq(Message) /\ Len(content[h]) = 1
  BY <1>3, InMemoryFacts DEF LengthInv
<1>6. PICK m \in Message : content[h] = <<m>>
  <2>1. PICK s : s = content[h]
    OBVIOUS
  <2>2. s \in [1..1 -> Message] /\ s[1] \in Message
    <3>1. s \in Seq(Message) /\ Len(s) = 1
      BY <1>5, <2>1
    <3>2. s \in [1..Len(s) -> Message]
      BY <3>1, LenProperties
    <3> QED BY <3>1, <3>2
  <2>3. s = <<s[1]>>
    BY <2>2
  <2> QED BY <2>1, <2>2, <2>3
<1>7. ToSet(record_queue'.items) \subseteq InMemory' /\ (log_message' # None => log_message' \in InMemory')
      /\ log_message \notin ToSet(record_queue'.items)
  BY <1>3 DEF InMemory, HeldInv, OnceInv
<1>8. IsLog(h) <=> KindOf(m) = "log"
  BY <1>6 DEF IsLog
<1>9. CASE ArchiveData
  <2>1. /\ ~IsLog(h) /\ archived' = Append(archived, content[h])
        /\ content' = Freed(content, refs') /\ log_message' = log_message
    BY <1>1, <1>9 DEF ArchiveData
  <2>2. \A r \in InMemory' : content'[r] = content[r]
    BY <2>1, KeptInMemory
  <2>3. Stores(m)
    BY <1>1, <1>2, <1>4, <1>6, <1>7, <1>8, <2>1, <2>2 DEF Stores, Takes
  <2> QED BY <1>1, <1>3, <2>3
<1>10. CASE CombineLog
  <2>1. /\ IsLog(h) /\ UNCHANGED <<archived, log_message>> /\ log_message # None
        /\ content' = Freed(Combined(h), refs')
    BY <1>1, <1>10 DEF CombineLog, Combines
  <2>2. \A r \in InMemory' : content'[r] = Combined(h)[r]
    BY <2>1, KeptInMemory
  <2>3. /\ content'[log_message] = content[log_message] \o content[h]
        /\ \A r \in ToSet(record_queue'.items) : content'[r] = content[r]
    <3>1. log_message \in Rec /\ content \in [Rec -> Seq(Message)]
      BY <2>1, InMemoryFacts
    <3>2. \A r \in Rec :
             Combined(h)[r] = IF r = log_message THEN content[log_message] \o content[h] ELSE content[r]
      BY <3>1 DEF Combined
    <3>3. ToSet(record_queue'.items) \subseteq Rec
      BY <1>7, KeptInMemory
    <3> QED BY <1>7, <2>1, <2>2, <3>1, <3>2, <3>3
  <2>4. AddsToHeld(m)
    BY <1>1, <1>2, <1>4, <1>6, <1>8, <2>1, <2>3 DEF AddsToHeld, Takes
  <2> QED BY <1>1, <1>3, <2>4
<1>11. CASE HoldLog
  <2> DEFINE before == IF log_message = None THEN <<>> ELSE <<content[log_message]>>
  <2>1. PICK late \in BOOLEAN :
          /\ archived' = archived \o before \o (IF late THEN <<content[h]>> ELSE <<>>)
          /\ log_message' = IF late THEN None ELSE h
    BY <1>1, <1>11 DEF HoldLog
  <2>2. IsLog(h) /\ content' = Freed(content, refs')
    BY <1>1, <1>11 DEF HoldLog
  <2>3. \A r \in InMemory' : content'[r] = content[r]
    BY <2>2, KeptInMemory
  <2>4. Takes(m)
    BY <1>1, <1>2, <1>4, <1>6, <1>7, <2>3 DEF Takes
  <2>5. archived \o before = WithHeld /\ WithHeld \in Seq(Seq(Message))
    <3>1. archived \o <<>> = archived
      BY ConcatEmptySeq
    <3>2. ASSUME log_message # None PROVE content[log_message] \in Seq(Message)
      BY <3>2, InMemoryFacts
    <3>3. ASSUME NEW x \in Seq(Message)
          PROVE archived \o <<x>> = Append(archived, x) /\ Append(archived, x) \in Seq(Seq(Message))
      BY AppendIsConcat, AppendProperties
    <3> QED BY <3>1, <3>2, <3>3 DEF WithHeld
  <2> HIDE DEF before
  <2>6. PICK w : w = archived \o before
    OBVIOUS
  <2>7. w \in Seq(Seq(Message)) /\ w = WithHeld
    BY <2>5, <2>6
  <2>8. w \o <<>> = w /\ w \o <<content[h]>> = Append(w, content[h])
    BY <1>5, <2>7, ConcatEmptySeq, AppendIsConcat
  <2>9. CASE late
    <3>1. archived' = Append(WithHeld, <<m>>) /\ log_message' = None
      BY <1>6, <2>1, <2>6, <2>7, <2>8, <2>9
    <3>2. ReplacesHeld(m)
      BY <1>8, <2>2, <2>4, <3>1 DEF ReplacesHeld
    <3> QED BY <1>1, <1>3, <3>2
  <2>10. CASE ~late
    <3>1. archived' = WithHeld /\ log_message' = h
      BY <2>1, <2>6, <2>7, <2>8, <2>10
    <3>2. content'[h] = <<m>>
      <4>1. h \in InMemory'
        BY <1>3, <1>7, <3>1, InMemoryFacts
      <4> QED BY <1>6, <2>3, <4>1
    <3>3. ReplacesHeld(m)
      BY <1>1, <1>8, <2>2, <2>4, <3>1, <3>2 DEF ReplacesHeld
    <3> QED BY <1>1, <1>3, <3>3
  <2> QED BY <2>9, <2>10, SMTT(30)
<1> QED BY <1>9, <1>10, <1>11

\* ReceiveRecord.
LEMMA ReceiveTurn ==
    ASSUME OpenInv, OpenInv', TypeInv, TypeInv', HeldInv, HeldInv', NEW k, ReceiveRecord(k)
    PROVE  \/ SameRecords /\ okay' /\ reply' = 2
           \/ Receives(FirstOf(k)) /\ FirstOf(k) \in Message /\ ~okay' /\ reply' = 1
<1>1. PICK m : m = FirstOf(k)
  OBVIOUS
<1>2. m \in Message
  BY <1>1, WholeRecord DEF ReceiveRecord, FirstOf
<1>3. \/ /\ UNCHANGED <<content, refs, record_queue, telemetry_queue>>
         /\ reply' = 2 /\ okay'
      \/ /\ FreeRecs # {} /\ QueueRecord(m, Min(FreeRecs))
         /\ reply' = 1 /\ ~okay'
  <2>1. PICK done \in BOOLEAN :
          /\ okay' = done
          /\ IF done
             THEN reply' = 2 /\ UNCHANGED <<content, refs, record_queue, telemetry_queue>>
             ELSE reply' = 1 /\ FreeRecs # {} /\ QueueRecord(m, Min(FreeRecs))
    <3>1. okay \in BOOLEAN
      BY DEF TypeInv, LocalInv
    <3> QED BY <1>1, <3>1 DEF ReceiveRecord, FirstOf
  <2> QED BY <2>1
<1>4. UNCHANGED <<archived, log_message>>
  BY DEF ReceiveRecord
<1>5. CASE FreeRecs # {} /\ QueueRecord(m, Min(FreeRecs)) /\ reply' = 1 /\ ~okay'
  <2>1. FreeRecs \subseteq Nat
    BY BufferAssumption DEF FreeRecs
  <2>2. PICK n \in FreeRecs : QueueRecord(m, n)
    BY <1>5, <2>1, LeastIn
  <2>3. /\ n \in Rec /\ n \notin InMemory
    BY ReceivedIsNew DEF InMemory
  <2>4. record_queue'.items = Append(record_queue.items, n)
    BY <2>2 DEF QueueRecord, Put, MadeRoom, MustEvict
  <2>5. PICK c : c = [content EXCEPT ![n] = <<m>>]
    OBVIOUS
  <2>6. content' = Freed(c, refs')
    BY <2>2, <2>5 DEF QueueRecord
  <2>7. \A r \in InMemory' : content'[r] = c[r]
    BY <2>6, KeptInMemory
  <2>8. InMemory' = InMemory \cup {n}
    <3>1. ToSet(record_queue'.items) = ToSet(record_queue.items) \cup {n}
      BY <2>2, QueuedFacts
    <3> QED BY <1>4, <3>1 DEF InMemory
  <2>9. c[n] = <<m>> /\ \A r \in InMemory : c[r] = content[r]
    BY <2>3, <2>5, InMemoryFacts
  <2>10. Receives(m)
    BY <1>4, <2>3, <2>4, <2>7, <2>8, <2>9 DEF Receives
  <2> QED BY <1>1, <1>2, <1>5, <2>10
<1>6. CASE UNCHANGED <<content, refs, record_queue, telemetry_queue>> /\ reply' = 2 /\ okay'
  BY <1>4, <1>6 DEF SameRecords
<1> QED BY <1>3, <1>5, <1>6

LEMMA RestartForgets == ASSUME Restart PROVE Forgets
BY DEF Restart, Forgets, EmptyQueue

\* Every other step.
LEMMA OtherTurns ==
    ASSUME OpenInv, OpenInv', TypeInv, TypeInv', HeldInv, HeldInv', [Next]_vars,
           ~(ArchiveData \/ CombineLog \/ HoldLog), ~Restart, \A k \in Conns : ~ReceiveRecord(k)
    PROVE  SameRecords
<1>1. ASSUME UNCHANGED <<archived, log_message, record_queue>>,
             content' = Freed(content, refs') \/ content' = content
      PROVE  SameRecords
  <2>1. InMemory' = InMemory
    BY <1>1 DEF InMemory
  <2>2. \A r \in InMemory : content'[r] = content[r]
    BY <1>1, <2>1, KeptInMemory
  <2> QED BY <1>1, <2>2 DEF SameRecords
<1>2. CASE ArchiveDone \/ callback_server_connect \/ callback_client_connect
  BY <1>1, <1>2 DEF ArchiveDone, callback_server_connect, callback_client_connect, records
<1>3. ASSUME NEW k \in Conns, \/ ReceivePiece(k) \/ SendReply(k) \/ ReceiveNothing(k)
                              \/ callback_server_closed(k) \/ callback_server_can_send(k)
                              \/ ClientDrained(k) \/ add_client_record(k) \/ RetireOldClient(k)
                              \/ callback_client_can_send(k)
      PROVE  SameRecords
  <2>1. UNCHANGED <<archived, log_message, record_queue>>
        /\ (content' = Freed(content, refs') \/ content' = content)
    BY <1>3 DEF ReceivePiece, SendReply, ReceiveNothing, callback_server_closed,
                callback_server_can_send, ClientDrained, add_client_record, RetireOldClient,
                callback_client_can_send, records
  <2> QED BY <1>1, <2>1
<1>4. CASE LoopStep \/ SelectReturns \/ Sigterm \/ Killed \/ UNCHANGED vars \/ PeerStep
  BY <1>1, <1>4, LoopLeaves, PeersLeave DEF vars, records
<1> QED BY <1>2, <1>3, <1>4 DEF Next, ArchdStep, CallbackStep, callback_archive

-----------------------------------------------------------------------------
(* The order of the messages archd has accepted.                           *)

\* ArchivedInOrder for the archived records a, and the messages of one record in order.
InOrder(a) ==
    \A i, j \in DOMAIN a :
        \A x \in DOMAIN a[i], y \in DOMAIN a[j] :
            i < j \/ (i = j /\ x < y) => MayPrecede(a[i][x], a[j][y])
Rising(s) == \A x, y \in DOMAIN s : x < y => MayPrecede(s[x], s[y])
AllPrecede(A, B) == \A m \in A : \A n \in B : MayPrecede(m, n)

QueueInOrder ==
    LET q == record_queue.items
    IN  \A i, j \in DOMAIN q : i < j => MayPrecede(content[q[i]][1], content[q[j]][1])

\* What is archived precedes what is in memory, the LOG held back what waits in the queue.
OrderInv ==
    /\ archived \in Seq(Seq(Message)) /\ InOrder(archived)
    /\ log_message # None => Rising(content[log_message])
    /\ \A m \in HeldBack : KindOf(m) = "log"
    /\ QueueInOrder
    /\ AllPrecede(MessagesOf(archived), HeldBack)
    /\ AllPrecede(MessagesOf(archived), Queued)
    /\ AllPrecede(HeldBack, Queued)

LEMMA LogsAndData ==
    ASSUME NEW m, NEW n, KindOf(m) # "log", KindOf(n) = "log"
    PROVE  MayPrecede(m, n) /\ MayPrecede(n, m)
BY DEF MayPrecede

LEMMA AppendInOrder ==
    ASSUME NEW a \in Seq(Seq(Message)), NEW s \in Seq(Message), InOrder(a), Rising(s),
           AllPrecede(MessagesOf(a), ToSet(s))
    PROVE  /\ Append(a, s) \in Seq(Seq(Message)) /\ InOrder(Append(a, s))
           /\ MessagesOf(Append(a, s)) = MessagesOf(a) \cup ToSet(s)
<1>1. PICK b, n : b = Append(a, s) /\ n = Len(a)
  OBVIOUS
<1>2. n \in Nat /\ DOMAIN a = 1..n
  BY <1>1, LenProperties
<1>3. /\ b \in Seq(Seq(Message)) /\ Len(b) = n + 1
      /\ (\A i \in 1..n : b[i] = a[i]) /\ b[n + 1] = s
  BY <1>1, AppendProperties
<1>4. PICK l : l = n + 1
  OBVIOUS
<1>5. DOMAIN b = DOMAIN a \cup {l} /\ b[l] = s /\ \A i \in DOMAIN a : b[i] = a[i] /\ i < l /\ ~(l < i)
  <2>1. DOMAIN b = 1..(n + 1)
    BY <1>3, LenProperties
  <2> QED BY <1>2, <1>3, <1>4, <2>1
<1>6. ~(l < l)
  BY <1>2, <1>4
<1>7. MessagesOf(b) = MessagesOf(a) \cup ToSet(s)
  BY <1>5 DEF MessagesOf
<1>8. ASSUME NEW i \in DOMAIN b, NEW j \in DOMAIN b, NEW x \in DOMAIN b[i], NEW y \in DOMAIN b[j],
             i < j \/ (i = j /\ x < y)
      PROVE  MayPrecede(b[i][x], b[j][y])
  <2>1. CASE i \in DOMAIN a /\ j \in DOMAIN a
    BY <1>5, <1>8, <2>1 DEF InOrder
  <2>2. CASE i \in DOMAIN a /\ j = l
    <3>1. b[i][x] \in ToSet(a[i]) /\ b[j][y] \in ToSet(s)
      BY <1>5, <2>2 DEF ToSet
    <3>2. b[i][x] \in MessagesOf(a)
      BY <2>2, <3>1 DEF MessagesOf
    <3> QED BY <3>1, <3>2 DEF AllPrecede
  <2>3. CASE i = l
    <3>1. j = l /\ x < y
      BY <1>5, <1>6, <1>8, <2>3
    <3> QED BY <1>5, <2>3, <3>1 DEF Rising
  <2> QED BY <1>5, <2>1, <2>2, <2>3
<1>9. InOrder(b)
  BY <1>8 DEF InOrder
<1> QED BY <1>1, <1>3, <1>7, <1>9

\* A LOG with one message more.
LEMMA LongerRising ==
    ASSUME NEW s \in Seq(Message), NEW m \in Message, Rising(s), AllPrecede(ToSet(s), {m})
    PROVE  /\ s \o <<m>> \in Seq(Message) /\ Rising(s \o <<m>>)
           /\ ToSet(s \o <<m>>) = ToSet(s) \cup {m}
<1>1. PICK t, n : t = Append(s, m) /\ n = Len(s)
  OBVIOUS
<1>2. n \in Nat /\ DOMAIN s = 1..n
  BY <1>1, LenProperties
<1>3. t \in Seq(Message) /\ Len(t) = n + 1 /\ (\A i \in 1..n : t[i] = s[i]) /\ t[n + 1] = m
  BY <1>1, AppendProperties
<1>4. DOMAIN t = 1..(n + 1)
  BY <1>3, LenProperties
<1>5. ASSUME NEW x \in DOMAIN t, NEW y \in DOMAIN t, x < y PROVE MayPrecede(t[x], t[y])
  <2>1. CASE y = n + 1
    <3>1. x \in DOMAIN s /\ t[x] = s[x]
      BY <1>2, <1>3, <1>4, <1>5, <2>1
    <3>2. t[x] \in ToSet(s)
      BY <3>1 DEF ToSet
    <3> QED BY <1>3, <2>1, <3>2 DEF AllPrecede
  <2>2. CASE y # n + 1
    <3>1. x \in DOMAIN s /\ y \in DOMAIN s /\ t[x] = s[x] /\ t[y] = s[y]
      BY <1>2, <1>3, <1>4, <1>5, <2>2
    <3> QED BY <1>5, <3>1 DEF Rising
  <2> QED BY <2>1, <2>2
<1>6. ToSet(t) = ToSet(s) \cup {m}
  <2>1. DOMAIN t = DOMAIN s \cup {n + 1}
    BY <1>2, <1>4
  <2> QED BY <1>2, <1>3, <2>1 DEF ToSet
<1>7. s \o <<m>> = t
  BY <1>1, AppendIsConcat
<1>8. Rising(t)
  BY <1>5 DEF Rising
<1> QED BY <1>3, <1>6, <1>7, <1>8

LEMMA SingleMessage ==
    ASSUME NEW m \in Message
    PROVE  <<m>> \in Seq(Message) /\ ToSet(<<m>>) = {m} /\ Rising(<<m>>) /\ <<m>>[1] = m
<1>1. <<m>> \in Seq(Message) /\ DOMAIN <<m>> = {1} /\ <<m>>[1] = m
  OBVIOUS
<1>2. ToSet(<<m>>) = {m}
  BY <1>1 DEF ToSet
<1>3. Rising(<<m>>)
  BY <1>1 DEF Rising
<1> QED BY <1>1, <1>2, <1>3

\* The queue without its oldest record, which precedes the others.
LEMMA TakesInOrder ==
    ASSUME TypeInv, NEW m \in Message, Takes(m), QueueInOrder
    PROVE  /\ QueueInOrder' /\ m \in Queued /\ Queued' \subseteq Queued
           /\ AllPrecede({m}, Queued')
           /\ Queued \subseteq Queued' \cup {m}
<1>1. PICK q : q = record_queue.items
  OBVIOUS
<1>2. PICK t : t = Tail(q)
  OBVIOUS
<1>3. /\ q \in Seq(Rec) /\ q # <<>> /\ record_queue'.items = t /\ content[Head(q)] = <<m>>
      /\ \A r \in ToSet(t) : content'[r] = content[r]
  BY <1>1, <1>2, InMemoryFacts DEF Takes
<1>4. /\ Len(q) \in Nat /\ Len(q) >= 1 /\ DOMAIN q = 1..Len(q)
      /\ t \in Seq(Rec) /\ Len(t) = Len(q) - 1 /\ \A i \in 1..Len(t) : t[i] = q[i + 1]
      /\ Head(q) = q[1]
  BY <1>2, <1>3, SetOfList, LenProperties, HeadTailProperties
<1>5. DOMAIN t = 1..(Len(q) - 1)
  BY <1>4, LenProperties
<1>6. /\ \A i \in DOMAIN t : i + 1 \in DOMAIN q /\ 1 < i + 1 /\ t[i] = q[i + 1]
      /\ \A i, j \in DOMAIN t : i < j => i + 1 < j + 1
      /\ 1 \in DOMAIN q
      /\ \A i \in DOMAIN q : i = 1 \/ (i - 1 \in DOMAIN t /\ t[i - 1] = q[i])
  BY <1>4, <1>5
<1>7. <<m>>[1] = m
  OBVIOUS
<1>8. content[q[1]][1] = m
  BY <1>3, <1>4, <1>7
<1>9. \A i \in DOMAIN t : t[i] \in ToSet(t) /\ content'[t[i]] = content[q[i + 1]]
  BY <1>3, <1>6, SMTT(30) DEF ToSet
<1>10. \A i, j \in DOMAIN q : i < j => MayPrecede(content[q[i]][1], content[q[j]][1])
  BY <1>1 DEF QueueInOrder
<1>11. QueueInOrder'
  <2>1. \A i, j \in DOMAIN t : i < j => MayPrecede(content'[t[i]][1], content'[t[j]][1])
    BY <1>6, <1>9, <1>10
  <2> QED BY <1>3, <2>1 DEF QueueInOrder
<1>12. Queued = {content[r][1] : r \in ToSet(q)} /\ Queued' = {content'[r][1] : r \in ToSet(t)}
  BY <1>1, <1>3 DEF Queued
<1>13. m \in Queued
  BY <1>6, <1>8, <1>12 DEF ToSet
<1>14. \A n \in Queued' : \E i \in DOMAIN t : n = content[q[i + 1]][1]
  BY <1>9, <1>12 DEF ToSet
<1>15. Queued' \subseteq Queued
  BY <1>6, <1>12, <1>14 DEF ToSet
<1>16. AllPrecede({m}, Queued')
  BY <1>6, <1>8, <1>10, <1>14 DEF AllPrecede
<1>17. Queued \subseteq Queued' \cup {m}
  <2> SUFFICES ASSUME NEW i \in DOMAIN q PROVE content[q[i]][1] \in Queued' \cup {m}
    BY <1>12 DEF ToSet
  <2>1. CASE i = 1
    BY <1>8, <2>1
  <2>2. CASE i # 1
    <3>1. i - 1 \in DOMAIN t /\ t[i - 1] = q[i]
      BY <1>6, <2>2
    <3>2. t[i - 1] \in ToSet(t) /\ content'[t[i - 1]] = content[q[i]]
      BY <1>3, <3>1 DEF ToSet
    <3>3. content'[t[i - 1]][1] \in Queued'
      BY <1>12, <3>2
    <3> QED BY <3>2, <3>3
  <2> QED BY <2>1, <2>2
<1> QED BY <1>11, <1>13, <1>15, <1>16, <1>17

\* The queue with a record more.
LEMMA ReceivesInOrder ==
    ASSUME TypeInv, NEW m \in Message, Receives(m), QueueInOrder, AllPrecede(Queued, {m})
    PROVE  QueueInOrder' /\ Queued' = Queued \cup {m}
<1>1. PICK q : q = record_queue.items
  OBVIOUS
<1>2. PICK r \in Rec : record_queue'.items = Append(q, r) /\ content'[r] = <<m>> /\ r \notin InMemory
  BY <1>1 DEF Receives
<1>3. PICK t, n : t = Append(q, r) /\ n = Len(q)
  OBVIOUS
<1>4. q \in Seq(Rec) /\ n \in Nat /\ DOMAIN q = 1..n
  BY <1>1, <1>3, InMemoryFacts, LenProperties
<1>5. t \in Seq(Rec) /\ Len(t) = n + 1 /\ (\A i \in 1..n : t[i] = q[i]) /\ t[n + 1] = r
  BY <1>3, <1>4, AppendProperties
<1>6. DOMAIN t = 1..(n + 1)
  BY <1>5, LenProperties
<1>7. <<m>>[1] = m
  OBVIOUS
<1>8. \A i \in DOMAIN q : q[i] \in ToSet(q) /\ content'[t[i]] = content[q[i]]
  <2>1. \A x \in ToSet(q) : content'[x] = content[x]
    BY <1>1 DEF Receives, InMemory
  <2>2. \A i \in DOMAIN q : q[i] \in ToSet(q)
    BY DEF ToSet
  <2> QED BY <1>4, <1>5, <2>1, <2>2
<1>9. content'[t[n + 1]][1] = m
  BY <1>2, <1>5, <1>7
<1>10. /\ Queued = {content[x][1] : x \in ToSet(q)}
       /\ Queued' = {content'[x][1] : x \in ToSet(t)}
  BY <1>1, <1>2, <1>3 DEF Queued
<1>11. \A i \in DOMAIN q : content[q[i]][1] \in Queued
  BY <1>8, <1>10
<1>12. ASSUME NEW i \in DOMAIN t, NEW j \in DOMAIN t, i < j
       PROVE  MayPrecede(content'[t[i]][1], content'[t[j]][1])
  <2>1. i \in DOMAIN q
    BY <1>4, <1>6, <1>12
  <2>2. CASE j = n + 1
    BY <1>8, <1>9, <1>11, <2>1, <2>2 DEF AllPrecede
  <2>3. CASE j # n + 1
    <3>1. j \in DOMAIN q
      BY <1>4, <1>6, <2>3
    <3> QED BY <1>1, <1>8, <1>12, <2>1, <3>1 DEF QueueInOrder
  <2> QED BY <2>2, <2>3
<1>13. QueueInOrder'
  BY <1>2, <1>3, <1>12 DEF QueueInOrder
<1>14. Queued' = Queued \cup {m}
  <2>1. ToSet(t) = ToSet(q) \cup {r}
    <3>1. DOMAIN t = DOMAIN q \cup {n + 1}
      BY <1>4, <1>6
    <3> QED BY <1>4, <1>5, <3>1 DEF ToSet
  <2>2. \A x \in ToSet(q) : content'[x] = content[x]
    BY <1>1 DEF Receives, InMemory
  <2> QED BY <1>2, <1>7, <1>10, <2>1, <2>2
<1> QED BY <1>13, <1>14

\* Sets of messages that precede each other, taken together.
LEMMA PrecedeBoth ==
    /\ \A A, B, C : AllPrecede(A \cup B, C) <=> AllPrecede(A, C) /\ AllPrecede(B, C)
    /\ \A A, B, C : AllPrecede(A, B \cup C) <=> AllPrecede(A, B) /\ AllPrecede(A, C)
    /\ \A A, B, C : AllPrecede(A, C) /\ B \subseteq C => AllPrecede(A, B)
    /\ \A A : AllPrecede(A, {}) /\ AllPrecede({}, A)
BY DEF AllPrecede

LEMMA SameOrder ==
    ASSUME OrderInv, SameRecords
    PROVE  OrderInv' /\ HeldBack' = HeldBack /\ Queued' = Queued /\ Accepted' = Accepted
<1>1. /\ archived' = archived /\ log_message' = log_message
      /\ record_queue'.items = record_queue.items
      /\ \A r \in ToSet(record_queue.items) : content'[r] = content[r]
      /\ log_message # None => content'[log_message] = content[log_message]
  BY DEF SameRecords, InMemory
<1>2. HeldBack' = HeldBack /\ Queued' = Queued
  BY <1>1 DEF HeldBack, Queued
<1>3. QueueInOrder'
  <2>1. \A i \in DOMAIN record_queue.items : record_queue.items[i] \in ToSet(record_queue.items)
    BY DEF ToSet
  <2> QED BY <1>1, <2>1 DEF OrderInv, QueueInOrder
<1>4. OrderInv'
  BY <1>1, <1>2, <1>3 DEF OrderInv
<1> QED BY <1>1, <1>2, <1>4 DEF Accepted

LEMMA StoresInOrder ==
    ASSUME TypeInv, OrderInv, NEW m \in Message, Stores(m) PROVE OrderInv' /\ Accepted' = Accepted
<1>1. /\ QueueInOrder' /\ m \in Queued /\ Queued' \subseteq Queued
      /\ AllPrecede({m}, Queued') /\ Queued \subseteq Queued' \cup {m}
  BY TakesInOrder DEF Stores, OrderInv
<1>2. HeldBack' = HeldBack /\ (log_message' # None => Rising(content'[log_message']))
  BY DEF Stores, HeldBack, OrderInv
<1>3. /\ AllPrecede(MessagesOf(archived), {m}) /\ AllPrecede({m}, HeldBack)
  <2>1. AllPrecede(MessagesOf(archived), {m})
    BY <1>1 DEF OrderInv, AllPrecede
  <2>2. AllPrecede({m}, HeldBack)
    BY LogsAndData DEF OrderInv, AllPrecede, Stores
  <2> QED BY <2>1, <2>2
<1>4. /\ archived' \in Seq(Seq(Message)) /\ InOrder(archived')
      /\ MessagesOf(archived') = MessagesOf(archived) \cup {m}
  <2>1. <<m>> \in Seq(Message) /\ ToSet(<<m>>) = {m} /\ Rising(<<m>>)
    BY SingleMessage
  <2>2. archived' = Append(archived, <<m>>)
    BY DEF Stores
  <2>3. archived \in Seq(Seq(Message)) /\ InOrder(archived)
    BY DEF OrderInv
  <2> QED BY <1>3, <2>1, <2>2, <2>3, AppendInOrder
<1>5. /\ AllPrecede(MessagesOf(archived'), HeldBack')
      /\ AllPrecede(MessagesOf(archived'), Queued') /\ AllPrecede(HeldBack', Queued')
  <2>1. /\ AllPrecede(MessagesOf(archived), HeldBack)
        /\ AllPrecede(MessagesOf(archived), Queued) /\ AllPrecede(HeldBack, Queued)
    BY DEF OrderInv
  <2>2. AllPrecede(MessagesOf(archived), Queued') /\ AllPrecede(HeldBack, Queued')
    BY <1>1, <2>1, PrecedeBoth
  <2> QED BY <1>1, <1>2, <1>3, <1>4, <2>1, <2>2, PrecedeBoth
<1>6. OrderInv'
  BY <1>1, <1>2, <1>4, <1>5 DEF OrderInv
<1>7. Accepted' = Accepted
  <2>1. Accepted' = (MessagesOf(archived) \cup {m}) \cup HeldBack \cup Queued'
    BY <1>2, <1>4 DEF Accepted
  <2> QED BY <1>1, <2>1 DEF Accepted
<1> QED BY <1>6, <1>7

LEMMA AddsInOrder ==
    ASSUME TypeInv, OrderInv, NEW m \in Message, AddsToHeld(m) PROVE OrderInv' /\ Accepted' = Accepted
<1>1. /\ QueueInOrder' /\ m \in Queued /\ Queued' \subseteq Queued
      /\ AllPrecede({m}, Queued') /\ Queued \subseteq Queued' \cup {m}
  BY TakesInOrder DEF AddsToHeld, OrderInv
<1>2. /\ archived' = archived /\ log_message' = log_message /\ log_message # None
      /\ content'[log_message] = content[log_message] \o <<m>> /\ KindOf(m) = "log"
  BY DEF AddsToHeld
<1>3. PICK s : s = content[log_message]
  OBVIOUS
<1>4. s \in Seq(Message) /\ Rising(s) /\ HeldBack = ToSet(s)
  BY <1>2, <1>3, InMemoryFacts DEF OrderInv, HeldBack
<1>5. AllPrecede(ToSet(s), {m})
  BY <1>1, <1>4 DEF OrderInv, AllPrecede
<1>6. Rising(s \o <<m>>) /\ ToSet(s \o <<m>>) = ToSet(s) \cup {m}
  BY <1>4, <1>5, LongerRising
<1>7. HeldBack' = HeldBack \cup {m} /\ Rising(content'[log_message'])
  BY <1>2, <1>3, <1>4, <1>6 DEF HeldBack
<1>8. AllPrecede(MessagesOf(archived), {m})
  BY <1>1 DEF OrderInv, AllPrecede
<1>9. /\ AllPrecede(MessagesOf(archived'), HeldBack')
      /\ AllPrecede(MessagesOf(archived'), Queued') /\ AllPrecede(HeldBack', Queued')
  BY <1>1, <1>2, <1>7, <1>8, PrecedeBoth DEF OrderInv
<1>10. OrderInv'
  BY <1>1, <1>2, <1>7, <1>9 DEF OrderInv
<1>11. Accepted' = Accepted
  <2>1. Accepted' = MessagesOf(archived) \cup (HeldBack \cup {m}) \cup Queued'
    BY <1>2, <1>7 DEF Accepted
  <2> QED BY <1>1, <2>1 DEF Accepted
<1> QED BY <1>10, <1>11

LEMMA ReplacesInOrder ==
    ASSUME TypeInv, OrderInv, NEW m \in Message, ReplacesHeld(m)
    PROVE  OrderInv' /\ Accepted' = Accepted
<1>1. /\ QueueInOrder' /\ m \in Queued /\ Queued' \subseteq Queued
      /\ AllPrecede({m}, Queued') /\ Queued \subseteq Queued' \cup {m}
  BY TakesInOrder DEF ReplacesHeld, OrderInv
<1>2. PICK w : w = WithHeld
  OBVIOUS
<1>3. /\ w \in Seq(Seq(Message)) /\ InOrder(w)
      /\ MessagesOf(w) = MessagesOf(archived) \cup HeldBack
  <2>1. CASE log_message = None
    BY <1>2, <2>1 DEF WithHeld, OrderInv, HeldBack
  <2>2. CASE log_message # None
    <3>1. content[log_message] \in Seq(Message) /\ HeldBack = ToSet(content[log_message])
      BY <2>2, InMemoryFacts DEF HeldBack
    <3>2. w = Append(archived, content[log_message])
      BY <1>2, <2>2 DEF WithHeld
    <3> QED BY <2>2, <3>1, <3>2, AppendInOrder DEF OrderInv
  <2> QED BY <2>1, <2>2
<1>4. AllPrecede(MessagesOf(w), Queued') /\ AllPrecede(MessagesOf(w), {m})
  <2>1. AllPrecede(MessagesOf(w), Queued)
    BY <1>3, PrecedeBoth DEF OrderInv
  <2>2. {m} \subseteq Queued
    BY <1>1
  <2> QED BY <1>1, <2>1, <2>2, PrecedeBoth
<1>5. /\ <<m>> \in Seq(Message) /\ ToSet(<<m>>) = {m} /\ Rising(<<m>>) /\ KindOf(m) = "log"
  BY SingleMessage DEF ReplacesHeld
<1>6. CASE archived' = Append(w, <<m>>) /\ log_message' = None
  <2>1. /\ archived' \in Seq(Seq(Message)) /\ InOrder(archived')
        /\ MessagesOf(archived') = MessagesOf(w) \cup {m}
    BY <1>3, <1>4, <1>5, <1>6, AppendInOrder, ZenonT(30)
  <2>2. HeldBack' = {}
    BY <1>6 DEF HeldBack
  <2>3. /\ AllPrecede(MessagesOf(archived'), HeldBack')
        /\ AllPrecede(MessagesOf(archived'), Queued') /\ AllPrecede(HeldBack', Queued')
    BY <1>1, <1>4, <2>1, <2>2, PrecedeBoth
  <2>4. OrderInv'
    BY <1>1, <1>6, <2>1, <2>2, <2>3 DEF OrderInv
  <2>5. Accepted' = ((MessagesOf(archived) \cup HeldBack) \cup {m}) \cup {} \cup Queued'
    BY <1>3, <2>1, <2>2 DEF Accepted
  <2> QED BY <1>1, <2>4, <2>5 DEF Accepted
<1>7. CASE archived' = w /\ log_message' = Head(record_queue.items)
           /\ content'[Head(record_queue.items)] = <<m>>
  <2>1. Head(record_queue.items) \in Rec /\ log_message' # None
    BY <1>7, InMemoryFacts, TailFacts DEF ReplacesHeld, Takes
  <2>2. HeldBack' = {m} /\ Rising(content'[log_message'])
    BY <1>5, <1>7, <2>1 DEF HeldBack
  <2>3. /\ AllPrecede(MessagesOf(archived'), HeldBack')
        /\ AllPrecede(MessagesOf(archived'), Queued') /\ AllPrecede(HeldBack', Queued')
    BY <1>1, <1>4, <1>7, <2>2, PrecedeBoth
  <2>4. OrderInv'
    BY <1>1, <1>3, <1>5, <1>7, <2>2, <2>3 DEF OrderInv
  <2>5. Accepted' = (MessagesOf(archived) \cup HeldBack) \cup {m} \cup Queued'
    BY <1>3, <1>7, <2>2 DEF Accepted
  <2> QED BY <1>1, <2>4, <2>5 DEF Accepted
<1> QED BY <1>2, <1>6, <1>7 DEF ReplacesHeld

LEMMA ReceivesKeepsOrder ==
    ASSUME TypeInv, OrderInv, NEW m \in Message, Receives(m), AllPrecede(Accepted, {m})
    PROVE  OrderInv' /\ Accepted' = Accepted \cup {m}
<1>1. AllPrecede(MessagesOf(archived), {m}) /\ AllPrecede(HeldBack, {m}) /\ AllPrecede(Queued, {m})
  BY PrecedeBoth DEF Accepted
<1>2. QueueInOrder' /\ Queued' = Queued \cup {m}
  BY <1>1, ReceivesInOrder DEF OrderInv
<1>3. /\ archived' = archived /\ log_message' = log_message
      /\ log_message # None => content'[log_message] = content[log_message]
  BY DEF Receives, InMemory
<1>4. HeldBack' = HeldBack
  BY <1>3 DEF HeldBack
<1>5. /\ AllPrecede(MessagesOf(archived'), HeldBack')
      /\ AllPrecede(MessagesOf(archived'), Queued') /\ AllPrecede(HeldBack', Queued')
  BY <1>1, <1>2, <1>3, <1>4, PrecedeBoth DEF OrderInv
<1>6. OrderInv'
  BY <1>2, <1>3, <1>4, <1>5 DEF OrderInv
<1> QED BY <1>2, <1>3, <1>4, <1>6 DEF Accepted

LEMMA ForgetsKeepsOrder ==
    ASSUME OrderInv, Forgets PROVE OrderInv' /\ Accepted' \subseteq Accepted
<1>1. archived' = archived /\ HeldBack' = {} /\ log_message' = None /\ record_queue'.items = <<>>
  BY DEF Forgets, HeldBack
<1>2. Queued' = {} /\ QueueInOrder'
  <2>1. ToSet(record_queue'.items) = {} /\ DOMAIN record_queue'.items = {}
    BY <1>1, EmptyQueueFacts
  <2> QED BY <2>1 DEF Queued, QueueInOrder
<1>3. OrderInv'
  BY <1>1, <1>2, PrecedeBoth DEF OrderInv
<1> QED BY <1>1, <1>2, <1>3 DEF Accepted

\* Two lists, one behind the other.
LEMMA SetOfConcat ==
    ASSUME NEW S, NEW s \in Seq(S), NEW t \in Seq(S)
    PROVE  s \o t \in Seq(S) /\ ToSet(s \o t) = ToSet(s) \cup ToSet(t)
<1>1. PICK u, m, n : u = s \o t /\ m = Len(s) /\ n = Len(t)
  OBVIOUS
<1>2. m \in Nat /\ n \in Nat /\ DOMAIN s = 1..m /\ DOMAIN t = 1..n
  BY <1>1, LenProperties
<1>3. /\ u \in Seq(S) /\ Len(u) = m + n
      /\ \A i \in 1..(m + n) : u[i] = IF i <= m THEN s[i] ELSE t[i - m]
  BY <1>1, ConcatProperties
<1>4. DOMAIN u = 1..(m + n)
  BY <1>3, LenProperties
<1>5. /\ \A i \in DOMAIN u : (i \in DOMAIN s /\ u[i] = s[i]) \/ (i - m \in DOMAIN t /\ u[i] = t[i - m])
      /\ \A i \in DOMAIN s : i \in DOMAIN u /\ u[i] = s[i]
      /\ \A i \in DOMAIN t : i + m \in DOMAIN u /\ u[i + m] = t[i]
  <2>1. /\ \A i \in 1..(m + n) : (i <= m /\ i \in 1..m) \/ (~(i <= m) /\ i - m \in 1..n)
        /\ \A i \in 1..m : i <= m /\ i \in 1..(m + n)
        /\ \A i \in 1..n : ~(i + m <= m) /\ i + m \in 1..(m + n) /\ i + m - m = i
    BY ONLY <1>2
  <2> QED BY <1>2, <1>3, <1>4, <2>1
<1>6. ToSet(u) = ToSet(s) \cup ToSet(t)
  BY <1>5 DEF ToSet
<1> QED BY <1>1, <1>3, <1>6

-----------------------------------------------------------------------------
(* What is on its way from the feeders to archd.                           *)

SentBy(f, m) == m \in Payload /\ m.from = f /\ m.no <= next[f]

\* On the connection of f, and in the receive buffer archd keeps for it.
InFlight(f) ==
    ToSet(wire[f]) \cup UNION {ToSet(server[k].buffer) : k \in {c \in Conns : sock[c] = f}}

NoLater(A, B) == \A m \in A : \A n \in B : m.no <= n.no
Ascending(s) == \A i, j \in DOMAIN s : i < j => s[i].no <= s[j].no

\* A feeder sends its messages in order, and does not go back before what archd has accepted.
FlightInv ==
    /\ \A f \in Feeder : Ascending(wire[f]) /\ \A m \in InFlight(f) : SentBy(f, m)
    /\ \A k \in Conns : sock[k] \in Feeder => NoLater(ToSet(server[k].buffer), ToSet(wire[sock[k]]))
    /\ \A m \in Accepted : SentBy(m.from, m) /\ NoLater({m}, InFlight(m.from))

LEMMA PayloadFacts ==
    /\ \A m \in Payload : m \in Message /\ m.from \in Feeder /\ m.no \in Nat \ {0}
                          /\ m.no <= Len(Script[m.from])
                          /\ m = [from |-> m.from, no |-> m.no]
    /\ \A f \in Feeder : \A i \in 1..Len(Script[f]) : [from |-> f, no |-> i] \in Payload
    /\ \A f \in Feeder : Len(Script[f]) \in Nat
<1>1. \A f \in Feeder : Len(Script[f]) \in Nat
  BY ScriptAssumption, LenProperties
<1>2. ASSUME NEW m \in Payload
      PROVE  m \in Message /\ m.from \in Feeder /\ m.no \in Nat \ {0}
             /\ m.no <= Len(Script[m.from]) /\ m = [from |-> m.from, no |-> m.no]
  <2>1. PICK f \in Feeder : m \in [from : {f}, no : 1..Len(Script[f])]
    BY <1>2 DEF Payload
  <2>2. m.from = f /\ m.no \in 1..Len(Script[f]) /\ m = [from |-> m.from, no |-> m.no]
    BY <2>1
  <2>3. m.no \in Nat \ {0} /\ m.no <= Len(Script[f])
    BY <1>1, <2>2
  <2> QED BY <2>2, <2>3 DEF Message
<1>3. ASSUME NEW f \in Feeder, NEW i \in 1..Len(Script[f]) PROVE [from |-> f, no |-> i] \in Payload
  <2>1. [from |-> f, no |-> i] \in [from : {f}, no : 1..Len(Script[f])]
    OBVIOUS
  <2> QED BY <2>1 DEF Payload
<1> QED BY <1>1, <1>2, <1>3

LEMMA InFlightOf ==
    /\ \A f, m : m \in InFlight(f) <=> \/ m \in ToSet(wire[f])
                                       \/ \E k \in Conns : sock[k] = f /\ m \in ToSet(server[k].buffer)
    /\ \A f, m : m \in InFlight(f)' <=> \/ m \in ToSet(wire'[f])
                                        \/ \E k \in Conns : sock'[k] = f /\ m \in ToSet(server'[k].buffer)
BY DEF InFlight

\* A part of a list.
LEMMA PartOfList ==
    ASSUME NEW S, NEW s \in Seq(S), NEW a \in Nat \ {0}, NEW b \in Int, b <= Len(s)
    PROVE  /\ SubSeq(s, a, b) \in Seq(S)
           /\ ToSet(SubSeq(s, a, b)) \subseteq ToSet(s)
           /\ Ascending(s) => Ascending(SubSeq(s, a, b))
           /\ Len(SubSeq(s, a, b)) = IF a <= b THEN b - a + 1 ELSE 0
           /\ \A i \in DOMAIN SubSeq(s, a, b) : SubSeq(s, a, b)[i] = s[a + i - 1]
<1>1. Len(s) \in Nat /\ DOMAIN s = 1..Len(s) /\ \A i \in 1..Len(s) : s[i] \in S
  BY LenProperties, ElementOfSeq
<1>2. \A i \in a..b : i \in 1..Len(s)
  BY <1>1
<1>3. PICK t : t = SubSeq(s, a, b)
  OBVIOUS
<1>4. /\ t \in Seq(S) /\ Len(t) = (IF a <= b THEN b - a + 1 ELSE 0)
      /\ \A i \in 1..(b - a + 1) : t[i] = s[a + i - 1]
  <2>1. \A i \in a..b : s[i] \in S
    BY <1>1, <1>2
  <2>2. a \in Int
    OBVIOUS
  <2> QED BY <1>3, <2>1, <2>2, SubSeqProperties
<1>5. DOMAIN t = 1..Len(t)
  BY <1>4, LenProperties
<1>6. \A i \in DOMAIN t : i \in 1..(b - a + 1) /\ a + i - 1 \in DOMAIN s
  BY <1>1, <1>4, <1>5
<1>7. \A i, j \in DOMAIN t : i < j => a + i - 1 < a + j - 1
  BY <1>5
<1>8. ToSet(t) \subseteq ToSet(s)
  BY <1>4, <1>6 DEF ToSet
<1>9. Ascending(s) => Ascending(t)
  BY <1>4, <1>6, <1>7 DEF Ascending
<1> QED BY <1>3, <1>4, <1>6, <1>8, <1>9

\* What ReceiveRecord takes from the socket.
LEMMA FirstFacts ==
    ASSUME OpenInv, TypeInv, NEW k, Receiving(k), Len(Incoming(k)) >= Wanted(k),
           NEW w, w = wire[sock[k]], NEW b, b = server[k].buffer
    PROVE  /\ k \in Conns /\ sock[k] \in Feeder
           /\ b \in Seq(Message) /\ w \in Seq(Message)
           /\ Len(b) \in Nat /\ Len(w) \in Nat /\ Len(b) < RecordUnits
           /\ Wanted(k) = RecordUnits - Len(b) /\ Wanted(k) \in Nat \ {0}
           /\ FirstOf(k) = (IF b = <<>> THEN w[1] ELSE b[1])
           /\ 1 \in DOMAIN w /\ (b # <<>> => 1 \in DOMAIN b)
<1>1. k \in Conns /\ sock[k] \in Feeder /\ server[k] \in ServerContext /\ w \in Seq(Message)
      /\ w = Incoming(k)
  BY DEF Receiving, OpenInv, TypeInv, ContextInv, NetInv, Incoming
<1>2. b \in Seq(Message) /\ Len(b) \in Nat /\ Len(b) < RecordUnits /\ Wanted(k) = RecordUnits - Len(b)
  BY <1>1, ServerParts DEF Wanted
<1>3. PICK n : n = Wanted(k)
  OBVIOUS
<1>4. n \in Nat \ {0} /\ n <= Len(w) /\ Len(w) \in Nat
  BY <1>1, <1>2, <1>3, LenProperties, BufferAssumption
<1>5. PICK u : u = SubSeq(w, 1, n)
  OBVIOUS
<1>6. 1 \in Nat \ {0} /\ n \in Int /\ 1 <= n
  BY <1>4
<1>7. u \in Seq(Message) /\ Len(u) = n /\ 1 \in DOMAIN u /\ u[1] = w[1]
  <2>1. u \in Seq(Message) /\ Len(u) = n - 1 + 1 /\ \A i \in DOMAIN u : u[i] = w[1 + i - 1]
    BY <1>1, <1>4, <1>5, <1>6, PartOfList
  <2>2. n - 1 + 1 = n /\ 1 + 1 - 1 = 1 /\ 1 \in 1..n
    BY <1>4
  <2>3. DOMAIN u = 1..Len(u)
    BY <2>1, LenProperties
  <2> QED BY <2>1, <2>2, <2>3
<1>8. PICK v : v = b \o u
  OBVIOUS
<1>9. /\ Len(v) = Len(b) + n
      /\ \A i \in 1..(Len(b) + n) : v[i] = IF i <= Len(b) THEN b[i] ELSE u[i - Len(b)]
  BY <1>2, <1>7, <1>8, ConcatProperties, SMTT(30)
<1>10. b = <<>> <=> Len(b) = 0
  BY <1>2, EmptySeq
<1>11. v[1] = IF b = <<>> THEN u[1] ELSE b[1]
  <2>1. 1 \in 1..(Len(b) + n) /\ (b = <<>> => ~(1 <= Len(b)) /\ 1 - Len(b) = 1) /\ (b # <<>> => 1 <= Len(b))
    BY <1>2, <1>4, <1>10
  <2> QED BY <1>9, <2>1
<1>12. FirstOf(k) = v[1]
  BY <1>1, <1>3, <1>5, <1>8 DEF FirstOf
<1>13. 1 \in DOMAIN w /\ (b # <<>> => 1 \in DOMAIN b)
  <2>1. DOMAIN w = 1..Len(w) /\ DOMAIN b = 1..Len(b)
    BY <1>1, <1>2, LenProperties
  <2> QED BY <1>2, <1>4, <1>10, <2>1
<1> QED BY <1>1, <1>2, <1>3, <1>4, <1>7, <1>11, <1>12, <1>13

\* It is the oldest message on its way, and what archd has accepted is older.
LEMMA FirstIsOldest ==
    ASSUME OpenInv, TypeInv, FlightInv, NEW k, Receiving(k), Len(Incoming(k)) >= Wanted(k)
    PROVE  /\ FirstOf(k) \in InFlight(sock[k]) /\ SentBy(sock[k], FirstOf(k))
           /\ NoLater({FirstOf(k)}, ToSet(wire[sock[k]]))
           /\ AllPrecede(Accepted, {FirstOf(k)})
<1>1. PICK w, b, m : w = wire[sock[k]] /\ b = server[k].buffer /\ m = FirstOf(k)
  OBVIOUS
<1>2. /\ k \in Conns /\ sock[k] \in Feeder /\ b \in Seq(Message) /\ w \in Seq(Message)
      /\ m = (IF b = <<>> THEN w[1] ELSE b[1])
      /\ 1 \in DOMAIN w /\ (b # <<>> => 1 \in DOMAIN b)
  BY <1>1, FirstFacts
<1>3. m \in InFlight(sock[k])
  <2>1. m \in ToSet(w) \/ m \in ToSet(b)
    BY <1>2 DEF ToSet
  <2> QED BY <1>1, <1>2, <2>1, InFlightOf
<1>4. SentBy(sock[k], m)
  BY <1>2, <1>3 DEF FlightInv
<1>5. NoLater({m}, ToSet(w))
  <2>1. CASE b = <<>>
    <3>1. DOMAIN w = 1..Len(w) /\ Len(w) \in Nat /\ \A i \in 1..Len(w) : w[i] \in Message
      BY <1>2, LenProperties, ElementOfSeq
    <3>2. Ascending(w) /\ m = w[1]
      BY <1>1, <1>2, <2>1 DEF FlightInv
    <3>3. ASSUME NEW i \in DOMAIN w PROVE w[1].no <= w[i].no
      <4>1. w[1] \in Message
        BY <1>2, <3>1
      <4>2. w[1].no \in Nat
        BY <4>1 DEF Message
      <4>3. i = 1 \/ 1 < i
        BY <3>1
      <4> QED BY <1>2, <3>2, <4>2, <4>3 DEF Ascending
    <3> QED BY <3>2, <3>3 DEF NoLater, ToSet
  <2>2. CASE b # <<>>
    <3>1. m \in ToSet(b)
      BY <1>2, <2>2 DEF ToSet
    <3>2. NoLater(ToSet(b), ToSet(w))
      BY <1>1, <1>2 DEF FlightInv
    <3> QED BY <3>1, <3>2 DEF NoLater
  <2> QED BY <2>1, <2>2
<1>6. AllPrecede(Accepted, {m})
  <2> SUFFICES ASSUME NEW a \in Accepted PROVE MayPrecede(a, m)
    BY DEF AllPrecede
  <2>1. a.from = m.from => a.no <= m.no
    BY <1>3, <1>4 DEF FlightInv, NoLater, SentBy
  <2> QED BY <2>1 DEF MayPrecede
<1> QED BY <1>1, <1>3, <1>4, <1>5, <1>6

\* The order of what archd has accepted, and when it accepts and forgets.
LEMMA OrderStep ==
    ASSUME OpenInv, OpenInv', TypeInv, TypeInv', HeldInv, HeldInv', LengthInv, OrderInv, FlightInv,
           [Next]_vars
    PROVE  /\ OrderInv'
           /\ Restart => Accepted' \subseteq Accepted
           /\ \A k \in Conns : ReceiveRecord(k) /\ reply' = 1 => Accepted' = Accepted \cup {FirstOf(k)}
           /\ ~Restart /\ (\A k \in Conns : ReceiveRecord(k) => reply' # 1) => Accepted' = Accepted
<1>1. ASSUME ArchiveData \/ CombineLog \/ HoldLog PROVE OrderInv' /\ Accepted' = Accepted
  <2>1. archived \in Seq(Seq(Message))
    BY DEF OrderInv
  <2>2. PICK m \in Message : Stores(m) \/ AddsToHeld(m) \/ ReplacesHeld(m)
    BY <1>1, <2>1, ArchiveTurn
  <2> QED BY <2>2, StoresInOrder, AddsInOrder, ReplacesInOrder
<1>2. ASSUME Restart PROVE OrderInv' /\ Accepted' \subseteq Accepted
  BY <1>2, RestartForgets, ForgetsKeepsOrder
<1>3. ASSUME NEW k \in Conns, ReceiveRecord(k)
      PROVE  /\ OrderInv'
             /\ reply' = 1 => Accepted' = Accepted \cup {FirstOf(k)}
             /\ reply' # 1 => Accepted' = Accepted
  <2>1. CASE SameRecords /\ reply' = 2
    <3>1. 2 # 1
      OBVIOUS
    <3> QED BY <2>1, <3>1, SameOrder
  <2>2. CASE Receives(FirstOf(k)) /\ FirstOf(k) \in Message /\ reply' = 1
    <3>1. AllPrecede(Accepted, {FirstOf(k)})
      BY <1>3, FirstIsOldest DEF ReceiveRecord
    <3>2. PICK m \in Message : m = FirstOf(k)
      BY <2>2
    <3> QED BY <2>2, <3>1, <3>2, ReceivesKeepsOrder
  <2> QED BY <1>3, <2>1, <2>2, ReceiveTurn
<1>4. ASSUME ~(ArchiveData \/ CombineLog \/ HoldLog), ~Restart, \A k \in Conns : ~ReceiveRecord(k)
      PROVE  OrderInv' /\ Accepted' = Accepted
  <2>1. SameRecords
    BY <1>4, OtherTurns
  <2> QED BY <2>1, SameOrder
<1>5. ASSUME NEW k \in Conns, ReceiveRecord(k)
      PROVE  ~(ArchiveData \/ CombineLog \/ HoldLog) /\ ~Restart
  <2>1. running \in Conns /\ phase = "read"
    BY <1>5 DEF ReceiveRecord, Receiving
  <2>2. "read" \notin {"prepare", "timeout", "killed", "returned"}
    OBVIOUS
  <2> QED BY <2>1, <2>2 DEF ArchiveData, CombineLog, HoldLog, Archiving, Restart, Pcomm!Start, Pcomm!Ended
<1>6. ASSUME ArchiveData \/ CombineLog \/ HoldLog PROVE ~Restart
  <2>1. phase \in {"prepare", "timeout"}
    BY <1>6 DEF ArchiveData, CombineLog, HoldLog, Archiving
  <2> QED BY <2>1 DEF Restart, Pcomm!Start, Pcomm!Ended
<1>7. CASE \E k \in Conns : ReceiveRecord(k)
  BY <1>3, <1>5, <1>7
<1>8. CASE ~\E k \in Conns : ReceiveRecord(k)
  BY <1>1, <1>2, <1>4, <1>6, <1>8
<1> QED BY <1>7, <1>8

\* A step that takes from the connections and the receive buffers, or leaves them.
LEMMA LessInFlight ==
    ASSUME TypeInv, TypeInv', FlightInv,
           \A f \in Feeder : /\ next[f] <= next'[f]
                             /\ ToSet(wire'[f]) \subseteq ToSet(wire[f]) /\ Ascending(wire'[f]),
           \A k \in Conns : sock'[k] \in Feeder =>
                              \/ server'[k].buffer = <<>>
                              \/ sock'[k] = sock[k] /\ server'[k].buffer = server[k].buffer,
           \A m \in Accepted' : m \in Accepted \/ (SentBy(m.from, m) /\ NoLater({m}, InFlight(m.from)'))
    PROVE  FlightInv'
<1>1. ToSet(<<>>) = {}
  BY EmptyQueueFacts DEF EmptyQueue
<1>2. \A f : f \in Feeder => InFlight(f)' \subseteq InFlight(f)
  <2> SUFFICES ASSUME NEW f \in Feeder, NEW m \in InFlight(f)' PROVE m \in InFlight(f)
    OBVIOUS
  <2>1. CASE m \in ToSet(wire'[f])
    BY <2>1, InFlightOf
  <2>2. CASE \E k \in Conns : sock'[k] = f /\ m \in ToSet(server'[k].buffer)
    BY <1>1, <2>2, InFlightOf
  <2> QED BY <2>1, <2>2, InFlightOf
<1>3. \A f \in Feeder : \A m : SentBy(f, m) => SentBy(f, m)'
  <2> SUFFICES ASSUME NEW f \in Feeder, NEW m \in Payload, m.no <= next[f] PROVE m.no <= next'[f]
    BY DEF SentBy
  <2>1. m.no \in Nat /\ next[f] \in Nat /\ next'[f] \in Nat /\ next[f] <= next'[f]
    BY PayloadFacts DEF TypeInv, LocalInv
  <2> QED BY <2>1
<1>4. \A f \in Feeder : Ascending(wire'[f]) /\ \A m \in InFlight(f)' : SentBy(f, m)'
  BY <1>2, <1>3 DEF FlightInv
<1>5. ASSUME NEW k \in Conns, sock'[k] \in Feeder
      PROVE  NoLater(ToSet(server'[k].buffer), ToSet(wire'[sock'[k]]))
  <2>1. CASE server'[k].buffer = <<>>
    BY <1>1, <2>1 DEF NoLater
  <2>2. CASE sock'[k] = sock[k] /\ server'[k].buffer = server[k].buffer
    BY <1>5, <2>2 DEF FlightInv, NoLater
  <2> QED BY <1>5, <2>1, <2>2
<1>6. ASSUME NEW m \in Accepted' PROVE SentBy(m.from, m)' /\ NoLater({m}, InFlight(m.from)')
  <2>1. SentBy(m.from, m)
    BY <1>6 DEF FlightInv
  <2>2. m.from \in Feeder
    BY <2>1, PayloadFacts DEF SentBy
  <2>3. CASE m \in Accepted
    BY <1>2, <1>3, <2>1, <2>2, <2>3 DEF FlightInv, NoLater
  <2> QED BY <1>3, <1>6, <2>1, <2>2, <2>3
<1> QED BY <1>4, <1>5, <1>6 DEF FlightInv

\* A piece of a record goes from the connection to the receive buffer.
LEMMA PieceInFlight ==
    ASSUME OpenInv, TypeInv, TypeInv', LinkInv, FlightInv, NEW k \in Conns, ReceivePiece(k),
           Accepted' = Accepted
    PROVE  /\ FlightInv' /\ \A g \in Feeder : InFlight(g)' = InFlight(g)
           /\ sock' = sock /\ server'[k].buffer = server[k].buffer \o wire[sock[k]]
           /\ server'[k].replies = server[k].replies
           /\ \A j \in Conns \ {k} : server'[j] = server[j]
           /\ wire'[sock[k]] = <<>> /\ \A g \in Feeder \ {sock[k]} : wire'[g] = wire[g]
<1>1. PICK f, b, w : f = sock[k] /\ b = server[k].buffer /\ w = wire[f]
  OBVIOUS
<1>2. /\ f \in Feeder /\ b \in Seq(Message) /\ w \in Seq(Message) /\ server[k] \in ServerContext
      /\ server \in [Conns -> ServerContext] /\ wire \in [Feeder -> Seq(Message)]
  BY <1>1, ServerParts DEF ReceivePiece, Receiving, OpenInv, TypeInv, ContextInv, NetInv
<1>3. /\ server' = [server EXCEPT ![k].buffer = b \o w] /\ wire' = [wire EXCEPT ![f] = <<>>]
      /\ sock' = sock /\ next' = next
  BY <1>1 DEF ReceivePiece, Incoming, feeders
<1>4. /\ server'[k].buffer = b \o w /\ server'[k].replies = server[k].replies
      /\ \A j \in Conns \ {k} : server'[j] = server[j]
      /\ wire'[f] = <<>> /\ \A g \in Feeder \ {f} : wire'[g] = wire[g]
  <2>1. server'[k].buffer = b \o w /\ server'[k].replies = server[k].replies
    <3>1. server[k] = [buffer |-> server[k].buffer, replies |-> server[k].replies]
      BY <1>2 DEF ServerContext
    <3> QED BY <1>2, <1>3, <3>1
  <2>2. \A j \in Conns \ {k} : server'[j] = server[j]
    BY <1>2, <1>3
  <2> QED BY <1>2, <1>3, <2>1, <2>2
<1>5. ToSet(b \o w) = ToSet(b) \cup ToSet(w)
  BY <1>2, SetOfConcat
<1>6. ToSet(<<>>) = {} /\ DOMAIN <<>> = {}
  BY EmptyQueueFacts DEF EmptyQueue
<1>7. \A j \in Conns : sock[j] = f => j = k
  <2>1. f # None
    BY <1>2, PeerAssumption DEF Peer
  <2> QED BY <1>1, <2>1 DEF LinkInv
<1>8. ASSUME NEW g \in Feeder PROVE InFlight(g)' = InFlight(g)
  <2>1. CASE g = f
    <3>1. \A m : m \in InFlight(f)' <=> m \in ToSet(b) \/ m \in ToSet(w)
      <4>1. \A m : m \notin ToSet(wire'[f])
        BY <1>4, <1>6
      <4>2. \A j \in Conns : sock'[j] = f <=> j = k
        BY <1>1, <1>3, <1>7
      <4>3. \A m : m \in ToSet(server'[k].buffer) <=> m \in ToSet(b) \/ m \in ToSet(w)
        BY <1>4, <1>5
      <4> QED BY <4>1, <4>2, <4>3, InFlightOf
    <3>2. \A m : m \in InFlight(f) <=> m \in ToSet(b) \/ m \in ToSet(w)
      BY <1>1, <1>7, InFlightOf
    <3> QED BY <2>1, <3>1, <3>2
  <2>2. CASE g # f
    <3>1. \A j \in Conns : sock[j] = g => j # k
      BY <1>1, <2>2
    <3>2. \A m : m \in InFlight(g)' <=> m \in InFlight(g)
      BY <1>3, <1>4, <2>2, <3>1, InFlightOf
    <3> QED BY <3>2
  <2> QED BY <2>1, <2>2
<1>9. \A g : \A m : SentBy(g, m)' <=> SentBy(g, m)
  BY <1>3 DEF SentBy
<1>10. \A g \in Feeder : Ascending(wire'[g]) /\ \A m \in InFlight(g)' : SentBy(g, m)'
  <2>1. Ascending(<<>>)
    BY <1>6 DEF Ascending
  <2>2. \A g \in Feeder : Ascending(wire'[g])
    BY <1>4, <2>1 DEF FlightInv
  <2> QED BY <1>8, <1>9, <2>2 DEF FlightInv
<1>11. ASSUME NEW j \in Conns, sock'[j] \in Feeder
       PROVE  NoLater(ToSet(server'[j].buffer), ToSet(wire'[sock'[j]]))
  <2>1. CASE j = k
    BY <1>1, <1>3, <1>4, <1>6, <2>1 DEF NoLater
  <2>2. CASE j # k
    <3>1. sock[j] # f
      BY <1>7, <2>2
    <3> QED BY <1>3, <1>4, <1>11, <2>2, <3>1 DEF FlightInv
  <2> QED BY <2>1, <2>2
<1>12. ASSUME NEW m \in Accepted' PROVE SentBy(m.from, m)' /\ NoLater({m}, InFlight(m.from)')
  <2>1. SentBy(m.from, m) /\ NoLater({m}, InFlight(m.from))
    BY <1>12 DEF FlightInv
  <2>2. m.from \in Feeder
    BY <2>1, PayloadFacts DEF SentBy
  <2> QED BY <1>8, <1>9, <2>1, <2>2
<1>13. FlightInv'
  BY <1>10, <1>11, <1>12 DEF FlightInv
<1> QED BY <1>1, <1>3, <1>4, <1>8, <1>13

\* A feeder sends the message it is at.
LEMMA SendInFlight ==
    ASSUME OpenInv, TypeInv, TypeInv', FlightInv, NEW f \in Feeder, SendRecord(f), Accepted' = Accepted
    PROVE  /\ FlightInv'
           /\ \A n \in InFlight(f)' : n \in InFlight(f) \/ n.no = next[f]
           /\ Len(wire'[f]) = Len(wire[f]) + RecordUnits
           /\ \A g \in Feeder \ {f} : wire'[g] = wire[g]
<1>1. PICK m, w : m = [from |-> f, no |-> next[f]] /\ w = wire[f]
  OBVIOUS
<1>2. PICK v : v = [i \in 1..RecordUnits |-> m]
  OBVIOUS
<1>3. /\ wire' = [wire EXCEPT ![f] = w \o v] /\ UNCHANGED <<sock, server>>
      /\ next' \in {next, [next EXCEPT ![f] = @ + 1]} /\ next[f] <= Len(Script[f])
  BY <1>1, <1>2 DEF SendRecord, HasMore, contexts
<1>4. /\ next \in [Feeder -> Nat \ {0}] /\ w \in Seq(Message) /\ wire \in [Feeder -> Seq(Message)]
      /\ next' \in [Feeder -> Nat \ {0}]
  BY <1>1 DEF TypeInv, LocalInv, NetInv
<1>5. m \in Payload /\ m.from = f /\ m.no = next[f] /\ m \in Message
  <2>1. next[f] \in 1..Len(Script[f])
    BY <1>3, <1>4, PayloadFacts
  <2>2. m \in Payload
    BY <1>1, <2>1, PayloadFacts
  <2> QED BY <1>1, <2>2, PayloadFacts
<1>6. v \in Seq(Message) /\ ToSet(v) = {m} /\ DOMAIN v = 1..RecordUnits /\ Len(v) = RecordUnits
      /\ \A i \in DOMAIN v : v[i] = m
  <2>1. v \in [1..RecordUnits -> Message] /\ RecordUnits \in Nat \ {0}
    BY <1>2, <1>5, BufferAssumption
  <2>2. v \in Seq(Message)
    BY <2>1, SeqDef
  <2>3. DOMAIN v = 1..RecordUnits /\ \A i \in DOMAIN v : v[i] = m
    BY <1>2
  <2>4. 1 \in DOMAIN v
    BY <2>1
  <2>5. ToSet(v) = {m}
    BY <2>3, <2>4 DEF ToSet
  <2>6. Len(v) = RecordUnits
    BY <2>1, <2>2, <2>3, LenProperties
  <2> QED BY <2>2, <2>3, <2>5, <2>6
<1>7. \A g \in Feeder : next[g] \in Nat /\ next'[g] \in Nat /\ next[g] <= next'[g]
  <2> SUFFICES ASSUME NEW g \in Feeder
               PROVE  next[g] \in Nat /\ next'[g] \in Nat /\ next[g] <= next'[g]
    OBVIOUS
  <2>1. next[g] \in Nat /\ next'[g] \in Nat
    BY <1>4
  <2>2. next'[g] = next[g] \/ next'[g] = next[g] + 1
    BY <1>3, <1>4
  <2> QED BY <2>1, <2>2
<1>8. \A g \in Feeder : \A n : SentBy(g, n) => SentBy(g, n)'
  <2> SUFFICES ASSUME NEW g \in Feeder, NEW n \in Payload, n.no <= next[g] PROVE n.no <= next'[g]
    BY DEF SentBy
  <2>1. n.no \in Nat
    BY PayloadFacts
  <2> QED BY <1>7, <2>1
<1>9. PICK t : t = w \o v
  OBVIOUS
<1>10. ToSet(t) = ToSet(w) \cup {m}
  BY <1>4, <1>6, <1>9, SetOfConcat
<1>11. /\ wire'[f] = t /\ \A g \in Feeder \ {f} : wire'[g] = wire[g]
  BY <1>3, <1>4, <1>9
<1>12. \A n \in InFlight(f) : n.no <= m.no /\ n.no \in Nat
  BY <1>5, PayloadFacts DEF FlightInv, SentBy
<1>13. Ascending(t)
  <2>1. /\ Len(w) \in Nat /\ DOMAIN w = 1..Len(w) /\ DOMAIN t = 1..(Len(w) + RecordUnits)
        /\ \A i \in DOMAIN t : t[i] = IF i <= Len(w) THEN w[i] ELSE v[i - Len(w)]
    <3>1. t \in Seq(Message) /\ Len(t) = Len(w) + RecordUnits
          /\ \A i \in 1..(Len(w) + RecordUnits) : t[i] = IF i <= Len(w) THEN w[i] ELSE v[i - Len(w)]
      <4>1. PICK n : n = Len(v)
        OBVIOUS
      <4>2. w \in Seq(Message) /\ v \in Seq(Message) /\ n = RecordUnits
        BY <1>4, <1>6, <4>1
      <4>3. t \in Seq(Message) /\ Len(t) = Len(w) + n
            /\ \A i \in 1..(Len(w) + n) : t[i] = IF i <= Len(w) THEN w[i] ELSE v[i - Len(w)]
        BY <1>9, <4>1, <4>2, ConcatProperties, ZenonT(30)
      <4> QED BY <4>2, <4>3
    <3> QED BY <1>4, <3>1, LenProperties
  <2>2. RecordUnits \in Nat
    BY BufferAssumption
  <2>3. \A i \in DOMAIN t : (i \in DOMAIN w /\ t[i] = w[i]) \/ (~(i \in DOMAIN w) /\ t[i] = m)
    <3>1. \A i \in DOMAIN t : ~(i <= Len(w)) => i - Len(w) \in 1..RecordUnits
      BY <2>1, <2>2
    <3>2. \A i \in DOMAIN t : (i <= Len(w)) <=> i \in DOMAIN w
      BY <2>1, <2>2
    <3> QED BY <1>6, <2>1, <3>1, <3>2
  <2>4. \A i \in DOMAIN w : w[i].no <= m.no
    <3>1. \A i \in DOMAIN w : w[i] \in ToSet(w)
      BY DEF ToSet
    <3> QED BY <1>1, <1>12, <3>1, InFlightOf
  <2>5. m.no <= m.no
    BY <1>4, <1>5
  <2>6. ASSUME NEW i \in DOMAIN t, NEW j \in DOMAIN t, i < j PROVE t[i].no <= t[j].no
    <3>1. CASE j \in DOMAIN w
      <4>1. i \in DOMAIN w
        BY <2>1, <2>2, <2>6, <3>1
      <4> QED BY <1>1, <2>3, <2>6, <3>1, <4>1 DEF FlightInv, Ascending
    <3>2. CASE j \notin DOMAIN w
      BY <2>3, <2>4, <2>5, <3>2
    <3> QED BY <3>1, <3>2
  <2> QED BY <2>6 DEF Ascending
<1>14. \A g \in Feeder : \A n \in InFlight(g)' : n \in InFlight(g) \/ (g = f /\ n = m)
  <2> SUFFICES ASSUME NEW g \in Feeder, NEW n \in InFlight(g)' PROVE n \in InFlight(g) \/ (g = f /\ n = m)
    OBVIOUS
  <2>1. CASE \E k \in Conns : sock'[k] = g /\ n \in ToSet(server'[k].buffer)
    BY <1>3, <2>1, InFlightOf
  <2>2. CASE n \in ToSet(wire'[g])
    <3>1. n \in ToSet(wire[g]) \/ (g = f /\ n = m)
      BY <1>1, <1>10, <1>11, <2>2
    <3> QED BY <3>1, InFlightOf
  <2> QED BY <2>1, <2>2, InFlightOf
<1>15. SentBy(f, m)'
  BY <1>4, <1>5, <1>7 DEF SentBy
<1>16. \A g \in Feeder : Ascending(wire'[g]) /\ \A n \in InFlight(g)' : SentBy(g, n)'
  BY <1>8, <1>11, <1>13, <1>14, <1>15 DEF FlightInv
<1>17. ASSUME NEW k \in Conns, sock'[k] \in Feeder
       PROVE  NoLater(ToSet(server'[k].buffer), ToSet(wire'[sock'[k]]))
  <2>1. NoLater(ToSet(server[k].buffer), ToSet(wire[sock[k]]))
    BY <1>3, <1>17 DEF FlightInv
  <2>2. CASE sock[k] = f
    <3>1. \A n \in ToSet(server[k].buffer) : n.no <= m.no
      BY <1>12, <2>2, InFlightOf
    <3> QED BY <1>1, <1>3, <1>10, <1>11, <2>1, <2>2, <3>1 DEF NoLater
  <2>3. CASE sock[k] # f
    BY <1>3, <1>11, <1>17, <2>1, <2>3
  <2> QED BY <2>2, <2>3
<1>18. ASSUME NEW a \in Accepted' PROVE SentBy(a.from, a)' /\ NoLater({a}, InFlight(a.from)')
  <2>1. SentBy(a.from, a) /\ NoLater({a}, InFlight(a.from))
    BY <1>18 DEF FlightInv
  <2>2. a.from \in Feeder
    BY <2>1, PayloadFacts DEF SentBy
  <2>3. a.from = f => a.no <= m.no
    BY <1>5, <2>1 DEF SentBy
  <2> QED BY <1>8, <1>14, <2>1, <2>2, <2>3 DEF NoLater
<1>19. FlightInv'
  BY <1>16, <1>17, <1>18 DEF FlightInv
<1>20. Len(wire'[f]) = Len(wire[f]) + RecordUnits
  <2>1. PICK n : n = Len(v)
    OBVIOUS
  <2>2. w \in Seq(Message) /\ v \in Seq(Message) /\ n = RecordUnits
    BY <1>4, <1>6, <2>1
  <2>3. Len(t) = Len(w) + n
    BY <1>9, <2>1, <2>2, ConcatProperties
  <2> QED BY <1>1, <1>11, <2>2, <2>3
<1> QED BY <1>5, <1>11, <1>14, <1>19, <1>20

\* archd takes a record off the connection.
LEMMA RecordInFlight ==
    ASSUME OpenInv, TypeInv, TypeInv', LinkInv, FlightInv, NEW k \in Conns, ReceiveRecord(k),
           Accepted' \subseteq Accepted \cup {FirstOf(k)}
    PROVE  /\ FlightInv'
           /\ \A m : m \in InFlight(sock[k])' <=> m \in ToSet(wire'[sock[k]])
           /\ \A g \in Feeder \ {sock[k]} : wire'[g] = wire[g] /\ InFlight(g)' = InFlight(g)
           /\ sock' = sock /\ server'[k].buffer = <<>> /\ server'[k].replies = server[k].replies
           /\ \A j \in Conns \ {k} : server'[j] = server[j]
           /\ wire'[sock[k]] = SubSeq(wire[sock[k]], Wanted(k) + 1, Len(wire[sock[k]]))
<1>1. PICK f, w, b, n : f = sock[k] /\ w = wire[f] /\ b = server[k].buffer /\ n = Wanted(k)
  OBVIOUS
<1>2. Receiving(k) /\ Len(Incoming(k)) >= Wanted(k)
  BY DEF ReceiveRecord
<1>3. /\ k \in Conns /\ f \in Feeder /\ w \in Seq(Message) /\ Len(w) \in Nat /\ n \in Nat \ {0}
  BY <1>1, <1>2, FirstFacts
<1>4. /\ server \in [Conns -> ServerContext] /\ wire \in [Feeder -> Seq(Message)]
  BY DEF TypeInv, ContextInv, NetInv
<1>5. PICK v : v = SubSeq(w, n + 1, Len(w))
  OBVIOUS
<1>6. /\ server' = [server EXCEPT ![k].buffer = <<>>] /\ wire' = [wire EXCEPT ![f] = v]
      /\ sock' = sock /\ next' = next
  BY <1>1, <1>5 DEF ReceiveRecord, feeders
<1>7. /\ server'[k].buffer = <<>> /\ server'[k].replies = server[k].replies
      /\ \A j \in Conns \ {k} : server'[j] = server[j]
      /\ wire'[f] = v /\ \A g \in Feeder \ {f} : wire'[g] = wire[g]
  <2>1. server[k] = [buffer |-> server[k].buffer, replies |-> server[k].replies]
    BY <1>4 DEF ServerContext
  <2> QED BY <1>3, <1>4, <1>6, <2>1
<1>8. ToSet(v) \subseteq ToSet(w) /\ Ascending(v)
  <2>1. n + 1 \in Nat \ {0} /\ Len(w) \in Int /\ Len(w) <= Len(w)
    BY <1>3
  <2>2. Ascending(w)
    BY <1>1, <1>3 DEF FlightInv
  <2> QED BY <1>3, <1>5, <2>1, <2>2, PartOfList
<1>9. \A g \in Feeder : /\ next[g] <= next'[g]
                        /\ ToSet(wire'[g]) \subseteq ToSet(wire[g]) /\ Ascending(wire'[g])
  <2>1. \A g \in Feeder : next[g] \in Nat
    BY DEF TypeInv, LocalInv
  <2>2. \A g \in Feeder : next[g] <= next'[g]
    BY <1>6, <2>1
  <2> QED BY <1>1, <1>7, <1>8, <2>2 DEF FlightInv
<1>10. ToSet(<<>>) = {}
  BY EmptyQueueFacts DEF EmptyQueue
<1>11. \A j \in Conns : sock[j] = f => j = k
  <2>1. f # None
    BY <1>3, PeerAssumption DEF Peer
  <2> QED BY <1>1, <2>1 DEF LinkInv
<1>12. \A m : m \in InFlight(f)' <=> m \in ToSet(wire'[f])
  BY <1>6, <1>7, <1>10, <1>11, InFlightOf
<1>13. \A g \in Feeder \ {f} : wire'[g] = wire[g] /\ InFlight(g)' = InFlight(g)
  <2> SUFFICES ASSUME NEW g \in Feeder \ {f} PROVE InFlight(g)' = InFlight(g)
    BY <1>7
  <2>1. \A j \in Conns : sock[j] = g => j # k
    BY <1>1
  <2>2. \A m : m \in InFlight(g)' <=> m \in InFlight(g)
    BY <1>6, <1>7, <2>1, InFlightOf
  <2> QED BY <2>2
<1>14. \A m \in Accepted' : m \in Accepted \/ (SentBy(m.from, m) /\ NoLater({m}, InFlight(m.from)'))
  <2> SUFFICES ASSUME NEW m, m = FirstOf(k) PROVE SentBy(m.from, m) /\ NoLater({m}, InFlight(m.from)')
    OBVIOUS
  <2>1. SentBy(f, m) /\ NoLater({m}, ToSet(w))
    BY <1>1, <1>2, FirstIsOldest
  <2>2. m.from = f
    BY <2>1 DEF SentBy
  <2>3. NoLater({m}, InFlight(f)')
    BY <1>7, <1>8, <1>12, <2>1 DEF NoLater
  <2> QED BY <2>1, <2>2, <2>3
<1>15. \A j \in Conns : \/ server'[j].buffer = <<>>
                        \/ sock'[j] = sock[j] /\ server'[j].buffer = server[j].buffer
  BY <1>6, <1>7
<1>16. FlightInv'
  BY <1>9, <1>14, <1>15, LessInFlight
<1> QED BY <1>1, <1>5, <1>6, <1>7, <1>12, <1>13, <1>16

\* What the other steps do to the connections and the receive buffers: they are left as they
\* are, or emptied, or a hang-up cuts off the end of what was sent.
LEMMA FlightLeft ==
    ASSUME OpenInv, TypeInv, [Next]_vars,
           \A k \in Conns : ~ReceivePiece(k) /\ ~ReceiveRecord(k), \A f \in Feeder : ~SendRecord(f)
    PROVE  /\ \A f \in Feeder : \/ wire'[f] = wire[f] \/ wire'[f] = <<>>
                                \/ wire'[f] = SubSeq(wire[f], 1, Len(wire[f]) - 1) /\ f \in shut'
           /\ \A k \in Conns : sock'[k] \in Feeder =>
                                 \/ server'[k].buffer = <<>>
                                 \/ sock'[k] = sock[k] /\ server'[k].buffer = server[k].buffer
           /\ \A f \in Feeder : next[f] <= next'[f]
<1>1. /\ server \in [Conns -> ServerContext] /\ wire \in [Feeder -> Seq(Message)]
      /\ sock \in [Conns -> Peer \cup {None}] /\ next \in [Feeder -> Nat \ {0}]
  BY DEF TypeInv, ContextInv, NetInv, OpenInv, LocalInv
<1>2. FreshServer.buffer = <<>> /\ None \notin Feeder
  BY PeerAssumption DEF FreshServer, Peer
<1>3. CASE callback_archive
  <2>1. UNCHANGED <<wire, sock, server, next>>
    BY <1>3 DEF callback_archive, ArchiveData, CombineLog, HoldLog, ArchiveDone, net, contexts, feeders
  <2> QED BY <1>1, <2>1
<1>4. CASE callback_server_connect \/ callback_client_connect
  <2>1. wire' = wire /\ next' = next
    BY <1>4 DEF callback_server_connect, callback_client_connect, net, feeders
  <2>2. \/ UNCHANGED <<sock, server>>
        \/ \E p \in Feeder : /\ sock' = [sock EXCEPT ![Min(Unused)] = p]
                             /\ server' = [server EXCEPT ![Min(Unused)] = FreshServer]
        \/ \E p \in Client : sock' = [sock EXCEPT ![Min(Unused)] = p] /\ server' = server
    BY <1>4 DEF callback_server_connect, callback_client_connect, net
  <2>3. PICK n : n = Min(Unused)
    OBVIOUS
  <2>4. CASE \E p \in Feeder : /\ sock' = [sock EXCEPT ![n] = p]
                               /\ server' = [server EXCEPT ![n] = FreshServer]
    BY <1>1, <1>2, <2>1, <2>4
  <2>5. CASE \E p \in Client : sock' = [sock EXCEPT ![n] = p] /\ server' = server
    <3>1. \A k \in Conns : sock'[k] \in Feeder => sock'[k] = sock[k]
      BY <1>1, <2>5, PeerAssumption
    <3> QED BY <1>1, <2>1, <2>5, <3>1
  <2>6. CASE UNCHANGED <<sock, server>>
    BY <1>1, <2>1, <2>6
  <2> QED BY <2>2, <2>3, <2>4, <2>5, <2>6
<1>5. ASSUME NEW k \in Conns, \/ ReceiveNothing(k) \/ ClientDrained(k) \/ callback_client_can_send(k)
                              \/ add_client_record(k) \/ RetireOldClient(k)
      PROVE  UNCHANGED <<wire, server, next>> /\ (sock' = sock \/ sock' = [sock EXCEPT ![k] = None])
  BY <1>5 DEF ReceiveNothing, ClientDrained, callback_client_can_send, add_client_record,
              RetireOldClient, ClientClosed, Closed, net, contexts, feeders
<1>6. ASSUME NEW k \in Conns, SendReply(k) \/ callback_server_can_send(k)
      PROVE  /\ UNCHANGED <<wire, sock, next>>
             /\ server' = server \/ \E q : server' = [server EXCEPT ![k].replies = q]
  BY <1>6 DEF SendReply, callback_server_can_send, feeders
<1>7. ASSUME NEW k \in Conns, callback_server_closed(k)
      PROVE  /\ UNCHANGED <<wire, next>> /\ sock' = [sock EXCEPT ![k] = None]
             /\ server' = [server EXCEPT ![k] = FreshServer]
  BY <1>7 DEF callback_server_closed, Closed, feeders
<1>8. CASE CallbackStep
  <2>1. ASSUME NEW k \in Conns, UNCHANGED <<wire, server, next>>,
               sock' = sock \/ sock' = [sock EXCEPT ![k] = None]
        PROVE  /\ \A f \in Feeder : wire'[f] = wire[f] /\ next[f] <= next'[f]
               /\ \A j \in Conns : sock'[j] \in Feeder =>
                                     sock'[j] = sock[j] /\ server'[j].buffer = server[j].buffer
    BY <1>1, <1>2, <2>1
  <2>2. ASSUME NEW k \in Conns, UNCHANGED <<wire, sock, next>>,
               server' = server \/ \E q : server' = [server EXCEPT ![k].replies = q]
        PROVE  /\ \A f \in Feeder : wire'[f] = wire[f] /\ next[f] <= next'[f]
               /\ \A j \in Conns : sock'[j] = sock[j] /\ server'[j].buffer = server[j].buffer
    <3>1. server[k] = [buffer |-> server[k].buffer, replies |-> server[k].replies]
      BY <1>1 DEF ServerContext
    <3>2. \A j \in Conns : server'[j].buffer = server[j].buffer
      BY <1>1, <2>2, <3>1
    <3> QED BY <1>1, <2>2, <3>2
  <2>3. ASSUME NEW k \in Conns, UNCHANGED <<wire, next>>, sock' = [sock EXCEPT ![k] = None],
               server' = [server EXCEPT ![k] = FreshServer]
        PROVE  /\ \A f \in Feeder : wire'[f] = wire[f] /\ next[f] <= next'[f]
               /\ \A j \in Conns : sock'[j] \in Feeder =>
                                     sock'[j] = sock[j] /\ server'[j].buffer = server[j].buffer
    BY <1>1, <1>2, <2>3
  <2>4. \/ callback_archive \/ callback_server_connect \/ callback_client_connect
        \/ \E k \in Conns : \/ ReceiveNothing(k) \/ ClientDrained(k) \/ callback_client_can_send(k)
                            \/ add_client_record(k) \/ RetireOldClient(k)
        \/ \E k \in Conns : SendReply(k) \/ callback_server_can_send(k)
        \/ \E k \in Conns : callback_server_closed(k)
    BY <1>8 DEF CallbackStep
  <2>5. CASE \E k \in Conns : \/ ReceiveNothing(k) \/ ClientDrained(k) \/ callback_client_can_send(k)
                              \/ add_client_record(k) \/ RetireOldClient(k)
    BY <1>5, <2>1, <2>5
  <2>6. CASE \E k \in Conns : SendReply(k) \/ callback_server_can_send(k)
    BY <1>6, <2>2, <2>6
  <2>7. CASE \E k \in Conns : callback_server_closed(k)
    BY <1>7, <2>3, <2>7
  <2> QED BY <1>3, <1>4, <2>4, <2>5, <2>6, <2>7
<1>9. CASE UNCHANGED <<wire, sock, server, next>>
  BY <1>1, <1>9
<1>10. CASE LoopStep \/ SelectReturns \/ Sigterm \/ Killed \/ UNCHANGED vars
  BY <1>9, <1>10, LoopLeaves DEF vars, net, contexts, feeders
<1>11. CASE Restart
  <2>1. /\ wire' = wire /\ next' = next /\ \A k \in Conns : server'[k] = FreshServer
    BY <1>11 DEF Restart, feeders
  <2> QED BY <1>1, <1>2, <2>1
<1>12. CASE PeerStep
  <2>1. sock' = sock /\ server' = server
    BY <1>12, PeersLeave
  <2>2. ASSUME NEW p \in Peer, HangUp(p)
        PROVE  /\ next' = next
               /\ \A f \in Feeder : \/ wire'[f] = wire[f] \/ wire'[f] = <<>>
                                    \/ wire'[f] = SubSeq(wire[f], 1, Len(wire[f]) - 1) /\ f \in shut'
    <3>1. next' = next /\ shut' = shut \cup {p}
          /\ (wire' = wire \/ (p \in Feeder /\ wire' = [wire EXCEPT ![p] = IF @ = <<>> THEN @ ELSE Front(@)]))
      BY <2>2 DEF HangUp
    <3>2. CASE p \in Feeder /\ wire' = [wire EXCEPT ![p] = IF @ = <<>> THEN @ ELSE Front(@)]
      <4>1. \A f \in Feeder \ {p} : wire'[f] = wire[f]
        BY <1>1, <3>2
      <4>2. wire'[p] = wire[p] \/ wire'[p] = SubSeq(wire[p], 1, Len(wire[p]) - 1)
        BY <1>1, <3>2 DEF Front
      <4> QED BY <3>1, <3>2, <4>1, <4>2
    <3> QED BY <3>1, <3>2
  <2>3. ASSUME NEW p \in Peer, ConnectionLost(p)
        PROVE  next' = next /\ \A f \in Feeder : wire'[f] = wire[f] \/ wire'[f] = <<>>
    <3>1. next' = next /\ (wire' = wire \/ (p \in Feeder /\ wire' = [wire EXCEPT ![p] = <<>>]))
      BY <2>3 DEF ConnectionLost
    <3> QED BY <1>1, <3>1
  <2>4. ASSUME NEW f \in Feeder, GetReply(f)
        PROVE  wire' = wire /\ next' = [next EXCEPT ![f] = @ + 1]
    BY <2>4 DEF GetReply
  <2>5. ASSUME NEW p, Connect(p) \/ ClientReads(p) \/ Elapse(p) PROVE wire' = wire /\ next' = next
    BY <2>5 DEF Connect, ClientReads, Elapse, net, feeders
  <2>6. CASE next' = next
    <3>1. \A f \in Feeder : next[f] <= next'[f]
      BY <1>1, <2>6
    <3> QED BY <1>12, <2>1, <2>2, <2>3, <2>4, <2>5, <3>1 DEF PeerStep
  <2>7. CASE \E f \in Feeder : wire' = wire /\ next' = [next EXCEPT ![f] = @ + 1]
    <3>1. \A f \in Feeder : next[f] <= next'[f]
      <4> SUFFICES ASSUME NEW f \in Feeder PROVE next[f] <= next'[f]
        OBVIOUS
      <4>1. next'[f] = next[f] \/ next'[f] = next[f] + 1
        BY <1>1, <2>7
      <4> QED BY <1>1, <4>1
    <3> QED BY <2>1, <2>7, <3>1
  <2> QED BY <1>12, <2>2, <2>3, <2>4, <2>5, <2>6, <2>7 DEF PeerStep
<1> QED BY <1>8, <1>10, <1>11, <1>12 DEF Next, ArchdStep

LEMMA FlightStep ==
    ASSUME OpenInv, OpenInv', TypeInv, TypeInv', HeldInv, HeldInv', LengthInv, LinkInv,
           OrderInv, FlightInv, [Next]_vars
    PROVE  FlightInv'
<1>1. ASSUME NEW k \in Conns, ReceiveRecord(k) PROVE FlightInv'
  <2>1. reply' = 1 \/ reply' = 2
    BY <1>1, ReceiveTurn
  <2>2. ~Restart /\ \A j \in Conns : ReceiveRecord(j) => j = k
    <3>1. phase = "read" /\ running = k
      BY <1>1 DEF ReceiveRecord, Receiving
    <3> QED BY <3>1 DEF ReceiveRecord, Receiving, Restart, Pcomm!Start, Pcomm!Ended
  <2>3. Accepted' \subseteq Accepted \cup {FirstOf(k)}
    <3>1. CASE reply' = 1
      BY <1>1, <3>1, OrderStep
    <3>2. CASE reply' # 1
      BY <1>1, <2>2, <3>2, OrderStep
    <3> QED BY <3>1, <3>2
  <2> QED BY <1>1, <2>3, RecordInFlight
<1>2. ASSUME \A k \in Conns : ~ReceiveRecord(k) PROVE Accepted' \subseteq Accepted
  BY <1>2, OrderStep
<1>3. ASSUME NEW k \in Conns, ReceivePiece(k) PROVE FlightInv'
  <2>1. \A j \in Conns : ~ReceiveRecord(j)
    <3>1. running = k /\ Len(Incoming(k)) < Wanted(k) /\ Len(Incoming(k)) \in Nat
          /\ Wanted(k) \in Int
      <4>1. Receiving(k) /\ running = k /\ Len(Incoming(k)) < Wanted(k)
        BY <1>3 DEF ReceivePiece, Receiving
      <4>2. server[k] \in ServerContext /\ Incoming(k) \in Seq(Message)
        BY <4>1 DEF Receiving, OpenInv, TypeInv, ContextInv, NetInv, Incoming
      <4> QED BY <4>1, <4>2, ServerParts, LenProperties, BufferAssumption DEF Wanted
    <3>2. ~(Len(Incoming(k)) >= Wanted(k))
      BY <3>1
    <3> QED BY <3>1, <3>2 DEF ReceiveRecord, Receiving
  <2>2. ~Restart
    BY <1>3 DEF ReceivePiece, Receiving, Restart, Pcomm!Start, Pcomm!Ended
  <2>3. Accepted' = Accepted
    BY <2>1, <2>2, OrderStep
  <2> QED BY <1>3, <2>3, PieceInFlight
<1>4. ASSUME NEW f \in Feeder, SendRecord(f), \A k \in Conns : ~ReceiveRecord(k), ~Restart
      PROVE  FlightInv'
  <2>1. Accepted' = Accepted
    BY <1>4, OrderStep
  <2> QED BY <1>4, <2>1, SendInFlight
<1>5. ASSUME \A k \in Conns : ~ReceivePiece(k) /\ ~ReceiveRecord(k), \A f \in Feeder : ~SendRecord(f)
      PROVE  FlightInv'
  <2>1. \A f \in Feeder : ToSet(wire'[f]) \subseteq ToSet(wire[f]) /\ Ascending(wire'[f])
    <3> SUFFICES ASSUME NEW f \in Feeder PROVE ToSet(wire'[f]) \subseteq ToSet(wire[f]) /\ Ascending(wire'[f])
      OBVIOUS
    <3>1. PICK w : w = wire[f]
      OBVIOUS
    <3>2. w \in Seq(Message) /\ Ascending(w)
      BY <3>1 DEF TypeInv, NetInv, FlightInv
    <3>3. ToSet(<<>>) = {} /\ Ascending(<<>>)
      BY EmptyQueueFacts DEF EmptyQueue, Ascending
    <3>4. ToSet(SubSeq(w, 1, Len(w) - 1)) \subseteq ToSet(w) /\ Ascending(SubSeq(w, 1, Len(w) - 1))
      <4>1. Len(w) \in Nat
        BY <3>2, LenProperties
      <4>2. 1 \in Nat \ {0} /\ Len(w) - 1 \in Int /\ Len(w) - 1 <= Len(w)
        BY <4>1
      <4> QED BY <3>2, <4>2, PartOfList
    <3> QED BY <1>5, <3>1, <3>2, <3>3, <3>4, FlightLeft
  <2> QED BY <1>2, <1>5, <2>1, FlightLeft, LessInFlight
<1>6. ASSUME NEW f \in Feeder, SendRecord(f) PROVE ~Restart /\ \A k \in Conns : ~ReceiveRecord(k)
  <2>1. link[f] # "away"
    BY <1>6 DEF SendRecord
  <2>2. wire'[f] # wire[f] /\ Len(wire'[f]) > Len(wire[f])
    <3> DEFINE new == [i \in 1..RecordUnits |-> [from |-> f, no |-> next[f]]]
    <3>1. next[f] \in Nat \ {0} /\ wire \in [Feeder -> Seq(Message)] /\ RecordUnits \in Nat \ {0}
      BY BufferAssumption DEF TypeInv, LocalInv, NetInv
    <3>2. new \in Seq(Message) /\ Len(new) = RecordUnits
      <4>1. [from |-> f, no |-> next[f]] \in Message
        BY <3>1 DEF Message
      <4>2. new \in [1..RecordUnits -> Message]
        BY <4>1
      <4>3. DOMAIN new = 1..RecordUnits
        OBVIOUS
      <4> HIDE DEF new
      <4>4. new \in Seq(Message)
        BY <3>1, <4>2, SeqDef
      <4> QED BY <3>1, <4>3, <4>4, LenProperties
    <3> HIDE DEF new
    <3>3. wire'[f] = wire[f] \o new
      BY <1>6, <3>1 DEF SendRecord, new
    <3>4. Len(wire[f] \o new) = Len(wire[f]) + Len(new) /\ Len(wire[f]) \in Nat
      BY <3>1, <3>2, ConcatProperties, LenProperties, ZenonT(30)
    <3>5. Len(wire'[f]) > Len(wire[f])
      BY <3>1, <3>2, <3>3, <3>4
    <3> QED BY <3>4, <3>5
  <2>3. ~Restart
    BY <2>1 DEF Restart, Peer
  <2>4. ASSUME NEW k \in Conns, ReceiveRecord(k) PROVE FALSE
    <3>1. reply = 0 /\ reply' = reply
      BY <1>6, <2>4 DEF ReceiveRecord, SendRecord, locals
    <3>2. reply' \in {1, 2}
      BY <2>4, ReceivedRecord
    <3> QED BY <3>1, <3>2
  <2> QED BY <2>3, <2>4
<1> QED BY <1>1, <1>3, <1>4, <1>5, <1>6

LEMMA InitialOrder == Init => OrderInv /\ FlightInv
<1> SUFFICES ASSUME Init PROVE OrderInv /\ FlightInv
  OBVIOUS
<1>1. /\ archived = <<>> /\ record_queue.items = <<>> /\ log_message = None
      /\ \A f \in Feeder : wire[f] = <<>>
      /\ \A k \in Conns : sock[k] = None
      /\ ToSet(<<>>) = {} /\ DOMAIN <<>> = {}
  BY EmptyQueueFacts DEF Init, EmptyQueue
<1>2. MessagesOf(archived) = {} /\ HeldBack = {} /\ Queued = {} /\ Accepted = {}
  BY <1>1 DEF MessagesOf, HeldBack, Queued, Accepted
<1>3. <<>> \in Seq(Seq(Message))
  BY EmptySeq
<1>4. OrderInv
  BY <1>1, <1>2, <1>3, PrecedeBoth DEF OrderInv, InOrder, QueueInOrder
<1>5. None \notin Feeder
  BY PeerAssumption DEF Peer
<1>6. \A f \in Feeder : \A m : m \notin InFlight(f)
  BY <1>1, <1>5, InFlightOf
<1>7. FlightInv
  BY <1>1, <1>2, <1>5, <1>6 DEF FlightInv, Ascending
<1> QED BY <1>4, <1>7

LEMMA OrderInvariance == Spec => [](OrderInv /\ FlightInv)
<1>1. OpenInv /\ OpenInv' /\ TypeInv /\ TypeInv' /\ HeldInv /\ HeldInv' /\ LengthInv
      /\ OrderInv /\ FlightInv /\ [Next]_vars => OrderInv'
  BY OrderStep
<1>2. OpenInv /\ OpenInv' /\ TypeInv /\ TypeInv' /\ HeldInv /\ HeldInv' /\ LengthInv
      /\ LinkInv /\ OrderInv /\ FlightInv /\ [Next]_vars => FlightInv'
  BY FlightStep
<1> QED BY <1>1, <1>2, InitialOrder, OpenInvariance, TypeInvariance, HeldInvariance, LengthInvariance,
           ReadyInvariance, PTL DEF Spec

\* Whatever connections come and go, whatever is combined, held back, retried or lost in a
\* crash, the LOG messages of a feeder are archived in the order it sent them, and so are its
\* other records: an archive is never read back out of order.
THEOREM WhatIsSentIsArchivedInOrder == Spec => []ArchivedInOrder
<1>1. OrderInv => ArchivedInOrder
  BY DEF OrderInv, InOrder, ArchivedInOrder
<1> QED BY <1>1, OrderInvariance, PTL

-----------------------------------------------------------------------------
(* What archd promises its feeders: the refinement of ArchiveService.      *)

\* The locals of callback_server_can_recv hold something only while it runs, and a command
\* has been carried out, or is to be answered, only for a feeder that does not wait.
CallbackInv ==
    phase \notin Pcomm!Ended =>
        /\ okay => phase = "read" /\ running \in server_map /\ sock[running] \in Pipelined
        /\ reply # 0 => /\ phase = "read" /\ running \in server_map
                        /\ sock[running] \notin Pipelined => reply = 1

\* Outside that callback there is neither.
LEMMA NoReplyElsewhere ==
    ASSUME CallbackInv, phase \notin Pcomm!Ended, phase # "read" \/ running \notin server_map
    PROVE  ~okay /\ reply = 0
BY DEF CallbackInv

LEMMA PipelinedCommand ==
    ASSUME NEW m \in Payload, KindOf(m) = "control" PROVE m.from \in Pipelined
<1>1. PICK f, s : f = m.from /\ s = Script[f]
  OBVIOUS
<1>2. f \in Feeder /\ m.no \in Nat \ {0} /\ m.no <= Len(s)
  BY <1>1, PayloadFacts
<1>3. s \in Seq({"data", "log", "control"})
  BY <1>1, <1>2, ScriptAssumption
<1>4. DOMAIN s = 1..Len(s) /\ Len(s) \in Nat
  BY <1>3, LenProperties
<1>5. m.no \in DOMAIN s /\ s[m.no] = "control"
  BY <1>1, <1>2, <1>4 DEF KindOf
<1>6. "control" \in ToSet(s)
  BY <1>5 DEF ToSet
<1> QED BY <1>1, <1>2, <1>6, ScriptAssumption

\* The reply to a feeder that waits is that to a record.
LEMMA ReplyToWaiting ==
    ASSUME OpenInv, OpenInv', TypeInv, TypeInv', HeldInv, HeldInv', FlightInv, CallbackInv,
           phase \notin Pcomm!Ended, NEW k \in Conns, ReceiveRecord(k), sock[k] \notin Pipelined
    PROVE  ~okay' /\ reply' = 1
<1>1. Receiving(k) /\ Len(Incoming(k)) >= Wanted(k)
  BY DEF ReceiveRecord
<1>2. PICK m : m = FirstOf(k)
  OBVIOUS
<1>3. m \in Payload /\ m.from = sock[k]
  BY <1>1, <1>2, FirstIsOldest DEF SentBy
<1>4. KindOf(m) # "control"
  BY <1>3, PipelinedCommand
<1>5. okay' = okay
  BY <1>2, <1>4 DEF ReceiveRecord, FirstOf
<1>6. ~okay
  BY <1>1 DEF CallbackInv, Receiving
<1>7. ~okay'
  BY <1>5, <1>6
<1> QED BY <1>7, ReceiveTurn

LEMMA CallbackInvStep ==
    ASSUME LoopInv, OpenInv, OpenInv', TypeInv, TypeInv', HeldInv, HeldInv', FlightInv, CallbackInv,
           [Next]_vars
    PROVE  CallbackInv'
<1>1. ASSUME ~okay', reply' = 0 PROVE CallbackInv'
  BY <1>1 DEF CallbackInv
<1>2. ASSUME UNCHANGED <<okay, reply>>, phase # "read" \/ running \notin server_map,
             phase \notin Pcomm!Ended
      PROVE  CallbackInv'
  BY <1>1, <1>2, NoReplyElsewhere
<1>3. ASSUME UNCHANGED <<okay, reply, phase, running, server_map>>,
             running \in server_map => sock'[running] = sock[running]
      PROVE  CallbackInv'
  BY <1>3 DEF CallbackInv
<1>4. CASE CallbackStep
  <2>1. phase \notin Pcomm!Ended
    BY <1>4, CallbackGoesOn
  <2>2. CASE callback_archive
    <3>1. UNCHANGED <<okay, reply>> /\ phase # "read"
      BY <2>2 DEF callback_archive, ArchiveData, CombineLog, HoldLog, ArchiveDone, Archiving, locals
    <3> QED BY <1>2, <2>1, <3>1
  <2>3. CASE callback_server_connect \/ callback_client_connect
    <3>1. UNCHANGED <<okay, reply>> /\ running \in ListenFds
      BY <2>3 DEF callback_server_connect, callback_client_connect, locals, ListenFds
    <3>2. running \notin server_map
      BY <3>1, FdAssumption DEF OpenInv, ListenFds
    <3> QED BY <1>2, <2>1, <3>1, <3>2
  <2>4. ASSUME NEW k \in Conns, ReceivePiece(k) \/ ReceiveNothing(k) \/ callback_server_closed(k)
        PROVE  CallbackInv'
    <3>1. ~okay' /\ reply' = 0
      BY <2>4 DEF ReceivePiece, ReceiveNothing, callback_server_closed
    <3> QED BY <1>1, <3>1
  <2>5. ASSUME NEW k \in Conns, ReceiveRecord(k) PROVE CallbackInv'
    <3>1. phase = "read" /\ running = k /\ k \in server_map /\ UNCHANGED <<phase, running, server_map, sock>>
      BY <2>5 DEF ReceiveRecord, Receiving, Pcomm!Continue
    <3>2. sock[k] \notin Pipelined => ~okay' /\ reply' = 1
      BY <2>1, <2>5, ReplyToWaiting
    <3> QED BY <3>1, <3>2 DEF CallbackInv
  <2>6. ASSUME NEW k \in Conns, SendReply(k) PROVE CallbackInv'
    <3>1. okay' = okay /\ reply' = 0 /\ UNCHANGED <<phase, running, server_map, sock>>
      BY <2>6 DEF SendReply, Pcomm!Continue
    <3> QED BY <2>1, <3>1 DEF CallbackInv
  <2>7. ASSUME NEW k \in Conns, \/ callback_server_can_send(k) \/ callback_client_can_send(k)
                                \/ ClientDrained(k) \/ RetireOldClient(k)
        PROVE  CallbackInv'
    <3>1. UNCHANGED <<okay, reply>> /\ phase # "read"
      BY <2>7 DEF callback_server_can_send, callback_client_can_send, ClientDrained, RetireOldClient, locals
    <3> QED BY <1>2, <2>1, <3>1
  <2>8. ASSUME NEW k \in Conns, add_client_record(k) PROVE CallbackInv'
    <3>1. UNCHANGED <<okay, reply, phase, running, server_map>> /\ k \in client_map
      BY <2>8 DEF add_client_record, Pcomm!Continue, OpenInv
    <3>2. sock' = sock \/ sock' = [sock EXCEPT ![k] = None]
      BY <2>8 DEF add_client_record, ClientClosed, Closed
    <3>3. k \notin server_map
      BY <3>1, PeerAssumption DEF OpenInv
    <3>4. running \in server_map => sock'[running] = sock[running]
      BY <3>2, <3>3 DEF OpenInv
    <3> QED BY <1>3, <3>1, <3>4
  <2> QED BY <1>4, <2>2, <2>3, <2>4, <2>5, <2>6, <2>7, <2>8 DEF CallbackStep
<1>5. CASE LoopStep \/ SelectReturns \/ Killed
  <2>1. UNCHANGED <<okay, reply>>
    BY <1>5, LoopLeaves
  <2>2. CASE phase' \in Pcomm!Ended
    BY <2>2 DEF CallbackInv
  <2>3. CASE phase' \notin Pcomm!Ended
    <3>1. phase \notin Pcomm!Ended /\ (running = NoFd \/ phase \in {"top", "populate", "select"})
      BY <1>5, <2>3 DEF LoopStep, SelectReturns, Killed, Pcomm!LoopTop, Pcomm!Populate,
                        Pcomm!StartCallback, Pcomm!ReadNullSet, Pcomm!EndPass, Pcomm!InPass,
                        Pcomm!Stream, Pcomm!Ended, Pcomm!Kill
    <3>2. phase # "read" \/ running \notin server_map
      BY <3>1, FdAssumption DEF OpenInv, AllFds
    <3> QED BY <1>2, <2>1, <3>1, <3>2
  <2> QED BY <2>2, <2>3
<1>6. CASE Sigterm
  <2>1. UNCHANGED <<okay, reply, server_map, sock, running>> /\ phase \notin Pcomm!Ended
    BY <1>6, LoopLeaves DEF net, contexts, Sigterm, Pcomm!Signal
  <2>2. phase' = phase \/ phase = "select"
    BY <1>6 DEF Sigterm, Pcomm!Signal
  <2> QED BY <1>2, <1>3, <2>1, <2>2
<1>7. CASE Restart
  BY <1>1, <1>7 DEF Restart
<1>8. CASE PeerStep
  <2>1. UNCHANGED <<okay, reply, phase, running, server_map, sock>>
    BY <1>8, PeersLeave DEF pcomm_vars, locals
  <2> QED BY <1>3, <2>1
<1>9. CASE UNCHANGED vars
  BY <1>3, <1>9 DEF vars, pcomm_vars, net, contexts, locals
<1> QED BY <1>4, <1>5, <1>6, <1>7, <1>8, <1>9 DEF Next, ArchdStep

LEMMA CallbackInvariance == Spec => []CallbackInv
<1>1. Init => CallbackInv
  BY DEF Init, CallbackInv
<1>2. LoopInv /\ OpenInv /\ OpenInv' /\ TypeInv /\ TypeInv' /\ HeldInv /\ HeldInv'
      /\ FlightInv /\ CallbackInv /\ [Next]_vars => CallbackInv'
  BY CallbackInvStep
<1> QED BY <1>1, <1>2, LoopInvariance, OpenInvariance, TypeInvariance, HeldInvariance,
           OrderInvariance, PTL DEF Spec

-----------------------------------------------------------------------------
(* A feeder that waits: one message on its way, or one reply.              *)

\* callback_server_can_recv has taken a record from f and has not sent the reply.
ReplyDue(f) == reply # 0 /\ running \in Conns /\ sock[running] = f

\* The record f waits for the reply to, or a piece of it, is on its way to archd.
OnItsWay(f) ==
    /\ inbox[f] = 0 /\ ~ReplyDue(f)
    /\ \A m \in InFlight(f) : m.no = next[f]
    /\ Len(wire[f]) <= RecordUnits
    /\ \A k \in Conns : sock[k] = f => Len(server[k].buffer) + Len(wire[f]) <= RecordUnits

\* archd has accepted it, and the reply is to be sent or has been.
Answered(f) ==
    /\ InFlight(f) = {} /\ [from |-> f, no |-> next[f]] \in Accepted
    /\ inbox[f] <= 1 /\ (ReplyDue(f) => inbox[f] = 0)

Waits(f) ==
    /\ link[f] = "away" \/ f \in shut => ~awaiting[f]
    /\ link[f] = "away" => wire[f] = <<>> /\ inbox[f] = 0 /\ f \notin shut
    /\ \A k \in Conns : sock[k] = f => server[k].replies.items = <<>>
    /\ link[f] # "away" /\ f \notin shut =>
          \/ awaiting[f] /\ (OnItsWay(f) \/ Answered(f))
          \/ ~awaiting[f] /\ InFlight(f) = {} /\ inbox[f] = 0 /\ ~ReplyDue(f)

WaitInv == \A f \in Feeder \ Pipelined : Waits(f)

\* A step that is not about f, or gives it a receive buffer of its own.
Untouched(f) ==
    /\ awaiting'[f] = awaiting[f] /\ next'[f] = next[f]
    /\ inbox'[f] = inbox[f] /\ wire'[f] = wire[f]
    /\ link'[f] = "away" <=> link[f] = "away"
    /\ f \in shut' <=> f \in shut
    /\ \A k \in Conns : sock'[k] = f =>
          \/ server'[k] = FreshServer
          \/ sock[k] = f /\ server'[k].buffer = server[k].buffer /\ server'[k].replies = server[k].replies
    /\ ReplyDue(f)' => ReplyDue(f)

LEMMA UntouchedWaits ==
    ASSUME TypeInv, NEW f \in Feeder \ Pipelined, Waits(f), Untouched(f),
           link[f] = "away" \/ Accepted \subseteq Accepted'
    PROVE  Waits(f)'
<1>1. ToSet(<<>>) = {} /\ FreshServer.buffer = <<>> /\ FreshServer.replies.items = <<>> /\ Len(<<>>) = 0
  BY EmptyQueueFacts DEF EmptyQueue, FreshServer
<1>2. InFlight(f)' \subseteq InFlight(f)
  <2> SUFFICES ASSUME NEW m \in InFlight(f)' PROVE m \in InFlight(f)
    OBVIOUS
  <2>1. CASE m \in ToSet(wire'[f])
    BY <2>1, InFlightOf DEF Untouched
  <2>2. CASE \E k \in Conns : sock'[k] = f /\ m \in ToSet(server'[k].buffer)
    <3>1. PICK k \in Conns : sock'[k] = f /\ m \in ToSet(server'[k].buffer)
      BY <2>2
    <3>2. sock[k] = f /\ m \in ToSet(server[k].buffer)
      BY <1>1, <3>1 DEF Untouched
    <3> QED BY <3>2, InFlightOf
  <2> QED BY <2>1, <2>2, InFlightOf
<1>3. \A k \in Conns : sock'[k] = f => server'[k].replies.items = <<>>
  BY <1>1 DEF Untouched, Waits
<1>4. CASE link[f] = "away" \/ f \in shut
  BY <1>3, <1>4 DEF Untouched, Waits
<1>5. CASE link[f] # "away" /\ f \notin shut /\ ~awaiting[f]
  BY <1>2, <1>3, <1>5 DEF Untouched, Waits
<1>6. CASE link[f] # "away" /\ f \notin shut /\ awaiting[f] /\ OnItsWay(f)
  <2>1. Len(wire[f]) \in Nat /\ Len(wire[f]) <= RecordUnits
    BY <1>6, LenProperties DEF TypeInv, NetInv, OnItsWay
  <2>2. 0 + Len(wire[f]) <= RecordUnits
    BY <2>1
  <2>3. \A k \in Conns : sock'[k] = f => Len(server'[k].buffer) + Len(wire'[f]) <= RecordUnits
    BY <1>1, <1>6, <2>2 DEF Untouched, OnItsWay
  <2>4. OnItsWay(f)'
    BY <1>2, <1>6, <2>3 DEF Untouched, OnItsWay
  <2> QED BY <1>3, <1>6, <2>4 DEF Untouched, Waits
<1>7. CASE link[f] # "away" /\ f \notin shut /\ awaiting[f] /\ Answered(f)
  <2>1. Answered(f)'
    BY <1>2, <1>7 DEF Untouched, Answered
  <2> QED BY <1>3, <1>7, <2>1 DEF Untouched, Waits
<1> QED BY <1>4, <1>5, <1>6, <1>7 DEF Waits

\* A reply that is due to a feeder is sent by the callback that runs for it.
LEMMA NoReplyDue ==
    ASSUME reply' = 0 \/ running' = NoFd PROVE \A f : ~ReplyDue(f)'
BY FdAssumption DEF ReplyDue, AllFds

\* The steps of archd that have nothing to do with any waiting feeder.
LEMMA OthersUntouched ==
    ASSUME LoopInv, OpenInv, TypeInv, CallbackInv, LinkInv, NEW f \in Feeder \ Pipelined,
           UNCHANGED <<reply, server, awaiting, next>>,
           \/ running' = running \/ running' = NoFd \/ reply = 0,
           \/ UNCHANGED net
           \/ \E k \in client_map :
                 /\ wire' = wire
                 /\ \/ Closed(k)
                    \/ /\ UNCHANGED <<sock, link, shut>>
                       /\ \E n \in Nat : inbox' = InboxAfter(sock[k], n)
    PROVE  Untouched(f)
<1>1. /\ sock \in [Conns -> Peer \cup {None}] /\ None \notin Peer /\ f \in Peer /\ NetInv
      /\ link \in [Peer -> {"away", "queued", "open"}] /\ inbox \in [Peer -> 0..SendRoom]
  BY PeerAssumption DEF OpenInv, TypeInv, NetInv, Peer
<1>2. ASSUME \A k \in Conns : sock'[k] = f => sock[k] = f PROVE ReplyDue(f)' => ReplyDue(f)
  BY <1>2, FdAssumption DEF ReplyDue, AllFds
<1>3. CASE UNCHANGED net
  BY <1>2, <1>3 DEF net, Untouched
<1>4. CASE \E k \in client_map :
              /\ wire' = wire
              /\ \/ Closed(k)
                 \/ /\ UNCHANGED <<sock, link, shut>>
                    /\ \E n \in Nat : inbox' = InboxAfter(sock[k], n)
  <2>1. PICK k \in client_map :
              /\ wire' = wire
              /\ \/ Closed(k)
                 \/ /\ UNCHANGED <<sock, link, shut>>
                    /\ \E n \in Nat : inbox' = InboxAfter(sock[k], n)
    BY <1>4
  <2>2. k \in Conns /\ sock[k] \in Peer /\ sock[k] # f
    BY PeerAssumption DEF OpenInv, Peer
  <2>3. CASE Closed(k)
    <3>1. /\ inbox'[f] = inbox[f] /\ link'[f] = link[f] /\ (f \in shut' <=> f \in shut)
          /\ \A j \in Conns : sock'[j] = f => sock[j] = f
      BY <1>1, <2>2, <2>3 DEF Closed
    <3> QED BY <1>2, <2>1, <3>1 DEF Untouched
  <2>4. CASE UNCHANGED <<sock, link, shut>> /\ \E n \in Nat : inbox' = InboxAfter(sock[k], n)
    <3>1. inbox'[f] = inbox[f]
      BY <1>1, <2>2, <2>4, SentFacts
    <3> QED BY <1>2, <2>1, <2>4, <3>1 DEF Untouched
  <2> QED BY <2>1, <2>3, <2>4
<1> QED BY <1>3, <1>4

\* A callback that has nothing to reply to yet finds no record of a feeder that was answered.
LEMMA NothingLeft ==
    ASSUME OpenInv, TypeInv, LinkInv, phase \notin Pcomm!Ended,
           NEW k, Receiving(k), sock[k] \notin Pipelined, Waits(sock[k])
    PROVE  /\ k \in Conns /\ sock[k] \in Feeder \ Pipelined /\ link[sock[k]] = "open"
           /\ Incoming(k) # <<>> /\ sock[k] \notin shut => awaiting[sock[k]] /\ OnItsWay(sock[k])
<1>1. k \in Conns /\ sock[k] \in Feeder \ Pipelined /\ sock[k] # None
  BY PeerAssumption DEF Receiving, OpenInv, Peer
<1>2. link[sock[k]] = "open"
  BY <1>1 DEF LinkInv
<1>3. PICK f, w : f = sock[k] /\ w = wire[f]
  OBVIOUS
<1>4. ASSUME w # <<>> PROVE InFlight(f) # {}
  <2>1. w \in Seq(Message)
    BY <1>1, <1>3 DEF TypeInv, NetInv
  <2>2. ToSet(w) # {}
    BY <1>4, <2>1, SetOfList
  <2> QED BY <1>3, <2>2, InFlightOf
<1>5. Incoming(k) # <<>> /\ f \notin shut => awaiting[f] /\ OnItsWay(f)
  BY <1>2, <1>3, <1>4 DEF Waits, Answered, Incoming
<1> QED BY <1>1, <1>2, <1>3, <1>5

LEMMA PieceWaits ==
    ASSUME OpenInv, TypeInv, TypeInv', LinkInv, FlightInv, phase \notin Pcomm!Ended,
           NEW k \in Conns, ReceivePiece(k), Accepted' = Accepted,
           NEW f \in Feeder \ Pipelined, Waits(f)
    PROVE  Waits(f)'
<1>1. /\ Receiving(k) /\ Incoming(k) # <<>> /\ reply = 0 /\ reply' = 0
      /\ UNCHANGED <<link, shut, inbox, awaiting, next>>
  BY DEF ReceivePiece, feeders
<1>2. /\ InFlight(f)' = InFlight(f) /\ sock' = sock
      /\ server'[k].buffer = server[k].buffer \o wire[sock[k]]
      /\ server'[k].replies = server[k].replies
      /\ \A j \in Conns \ {k} : server'[j] = server[j]
      /\ wire'[sock[k]] = <<>> /\ \A g \in Feeder \ {sock[k]} : wire'[g] = wire[g]
  BY PieceInFlight
<1>3. ~ReplyDue(f)'
  BY <1>1, NoReplyDue
<1>4. CASE sock[k] # f
  <2>1. Untouched(f)
    BY <1>1, <1>2, <1>3, <1>4 DEF Untouched
  <2> QED BY <2>1, UntouchedWaits
<1>5. CASE sock[k] = f
  <2>1. link[f] = "open" /\ (f \notin shut => awaiting[f] /\ OnItsWay(f))
    BY <1>1, <1>5, NothingLeft
  <2>2. \A j \in Conns : sock'[j] = f => server'[j].replies.items = <<>>
    BY <1>2 DEF Waits
  <2>3. ASSUME f \notin shut PROVE OnItsWay(f)'
    <3>1. OnItsWay(f)
      BY <2>1, <2>3
    <3>2. PICK b, w : b = server[k].buffer /\ w = wire[f]
      OBVIOUS
    <3>3. b \in Seq(Message) /\ w \in Seq(Message) /\ Len(b) \in Nat /\ Len(w) \in Nat
      <4>1. server[k] \in ServerContext /\ w \in Seq(Message)
        BY <3>2 DEF TypeInv, ContextInv, NetInv
      <4> QED BY <3>2, <4>1, ServerParts, LenProperties
    <3>4. Len(b \o w) = Len(b) + Len(w) /\ Len(b) + Len(w) <= RecordUnits
      <4>1. Len(b \o w) = Len(b) + Len(w)
        BY <3>3, ConcatProperties
      <4>2. Len(b) + Len(w) <= RecordUnits
        BY <1>5, <3>1, <3>2 DEF OnItsWay
      <4> QED BY <4>1, <4>2
    <3>5. \A j \in Conns : sock'[j] = f => j = k
      <4>1. f # None
        BY PeerAssumption DEF Peer
      <4> QED BY <1>2, <1>5, <4>1 DEF LinkInv
    <3>6. Len(<<>>) = 0 /\ 0 <= RecordUnits
      BY EmptySeq, BufferAssumption
    <3>7. Len(b \o w) + 0 <= RecordUnits
      BY <3>3, <3>4
    <3>8. Len(wire'[f]) <= RecordUnits /\ Len(server'[k].buffer) + Len(wire'[f]) <= RecordUnits
      BY <1>2, <1>5, <3>2, <3>6, <3>7
    <3> QED BY <1>1, <1>2, <1>3, <3>1, <3>5, <3>8 DEF OnItsWay
  <2>4. "open" # "away"
    OBVIOUS
  <2> QED BY <1>1, <2>1, <2>2, <2>3, <2>4 DEF Waits
<1> QED BY <1>4, <1>5

LEMMA RecordWaits ==
    ASSUME OpenInv, OpenInv', TypeInv, TypeInv', HeldInv, HeldInv', LinkInv, FlightInv, CallbackInv,
           phase \notin Pcomm!Ended, NEW k \in Conns, ReceiveRecord(k),
           Accepted \subseteq Accepted', reply' = 1 => Accepted' = Accepted \cup {FirstOf(k)},
           Accepted' \subseteq Accepted \cup {FirstOf(k)},
           NEW f \in Feeder \ Pipelined, Waits(f)
    PROVE  Waits(f)'
<1>1. /\ Receiving(k) /\ Len(Incoming(k)) >= Wanted(k) /\ reply = 0
      /\ UNCHANGED <<link, shut, inbox, awaiting, next, running>> /\ running = k
  BY DEF ReceiveRecord, feeders, Pcomm!Continue, Receiving
<1>2. /\ \A m : m \in InFlight(sock[k])' <=> m \in ToSet(wire'[sock[k]])
      /\ \A g \in Feeder \ {sock[k]} : wire'[g] = wire[g] /\ InFlight(g)' = InFlight(g)
      /\ sock' = sock /\ server'[k].buffer = <<>> /\ server'[k].replies = server[k].replies
      /\ \A j \in Conns \ {k} : server'[j] = server[j]
      /\ wire'[sock[k]] = SubSeq(wire[sock[k]], Wanted(k) + 1, Len(wire[sock[k]]))
  BY RecordInFlight
<1>3. CASE sock[k] # f
  <2>1. ~ReplyDue(f)'
    BY <1>1, <1>2, <1>3 DEF ReplyDue
  <2>2. Untouched(f)
    BY <1>1, <1>2, <1>3, <2>1 DEF Untouched
  <2> QED BY <2>2, UntouchedWaits
<1>4. CASE sock[k] = f
  <2>1. PICK w, b, n : w = wire[f] /\ b = server[k].buffer /\ n = Wanted(k)
    OBVIOUS
  <2>2. /\ b \in Seq(Message) /\ w \in Seq(Message) /\ Len(b) \in Nat /\ Len(w) \in Nat
        /\ n = RecordUnits - Len(b) /\ n \in Nat \ {0} /\ Len(w) >= n /\ Incoming(k) = w
    BY <1>1, <1>4, <2>1, FirstFacts DEF Incoming
  <2>3. Incoming(k) # <<>>
    <3>1. Len(w) # 0
      BY <2>2
    <3> QED BY <2>2, <3>1, EmptySeq
  <2>4. link[f] = "open" /\ (f \notin shut => awaiting[f] /\ OnItsWay(f))
    BY <1>1, <1>4, <2>3, NothingLeft
  <2>5. \A j \in Conns : sock'[j] = f => server'[j].replies.items = <<>>
    BY <1>2 DEF Waits
  <2>6. ASSUME f \notin shut PROVE Answered(f)'
    <3>1. OnItsWay(f)
      BY <2>4, <2>6
    <3>2. InFlight(f)' = {}
      <4>1. Len(b) + Len(w) <= RecordUnits
        BY <1>4, <2>1, <3>1 DEF OnItsWay
      <4>2. n + 1 > Len(w) /\ n + 1 \in Int /\ Len(w) \in Int
        BY <2>2, <4>1, BufferAssumption
      <4>3. SubSeq(w, n + 1, Len(w)) = <<>>
        BY <4>2, SubSeqEmpty
      <4>4. wire'[f] = <<>>
        BY <1>2, <1>4, <2>1, <4>3
      <4>5. ToSet(<<>>) = {}
        BY EmptyQueueFacts DEF EmptyQueue
      <4> QED BY <1>2, <1>4, <4>4, <4>5
    <3>3. [from |-> f, no |-> next[f]] \in Accepted'
      <4>1. PICK m : m = FirstOf(k)
        OBVIOUS
      <4>2. m \in InFlight(f) /\ m \in Payload /\ m.from = f
        BY <1>1, <1>4, <4>1, FirstIsOldest DEF SentBy
      <4>3. m.no = next[f]
        BY <3>1, <4>2 DEF OnItsWay
      <4>4. m = [from |-> f, no |-> next[f]]
        BY <4>2, <4>3, PayloadFacts
      <4>5. reply' = 1
        BY <1>4, ReplyToWaiting
      <4> QED BY <4>1, <4>4, <4>5
    <3>4. inbox'[f] = 0 /\ 0 <= 1
      BY <1>1, <3>1 DEF OnItsWay
    <3> QED BY <1>1, <3>2, <3>3, <3>4 DEF Answered
  <2>7. "open" # "away"
    OBVIOUS
  <2> QED BY <1>1, <2>4, <2>5, <2>6, <2>7 DEF Waits
<1> QED BY <1>3, <1>4

\* The reply: one unit, for which there is room.
LEMMA ReplyWaits ==
    ASSUME OpenInv, TypeInv, LinkInv, CallbackInv, phase \notin Pcomm!Ended,
           NEW k \in Conns, SendReply(k), Accepted \subseteq Accepted',
           NEW f \in Feeder \ Pipelined, Waits(f)
    PROVE  Waits(f)'
<1>1. /\ Receiving(k) /\ reply # 0 /\ reply' = 0 /\ inbox' = InboxAfter(sock[k], reply)
      /\ UNCHANGED <<sock, link, shut, wire, awaiting, next>>
      /\ server' = IF SentShort(sock[k], reply)
                   THEN [server EXCEPT ![k].replies = Put(@, -1, reply)] ELSE server
  BY DEF SendReply, feeders
<1>2. /\ running = k /\ k \in server_map /\ sock[k] \in Feeder /\ sock[k] \in Peer /\ reply \in Nat
      /\ server \in [Conns -> ServerContext] /\ NetInv
  BY <1>1 DEF Receiving, OpenInv, Peer, TypeInv, LocalInv, ContextInv
<1>3. \A g : ~ReplyDue(g)'
  BY <1>1, NoReplyDue
<1>4. CASE sock[k] # f
  <2>1. inbox'[f] = inbox[f]
    BY <1>1, <1>2, <1>4, SentFacts DEF Peer
  <2>2. \A j \in Conns : sock[j] = f => server'[j] = server[j]
    BY <1>1, <1>2, <1>4
  <2>3. Untouched(f)
    BY <1>1, <1>3, <2>1, <2>2 DEF Untouched
  <2> QED BY <2>3, UntouchedWaits
<1>5. CASE sock[k] = f
  <2>1. reply = 1 /\ ReplyDue(f)
    BY <1>1, <1>2, <1>5 DEF CallbackInv, ReplyDue
  <2>2. link[f] = "open"
    <3>1. sock[k] # None
      BY <1>2, PeerAssumption
    <3> QED BY <1>5, <3>1 DEF LinkInv
  <2>3. f \in shut \/ (awaiting[f] /\ Answered(f) /\ inbox[f] = 0)
    BY <2>1, <2>2 DEF Waits, OnItsWay, Answered
  <2>4. Sent(f, 1) = 1
    <3>1. CASE f \in shut
      BY <3>1 DEF Sent
    <3>2. CASE f \notin shut
      <4>1. Room(f) = SendRoom /\ SendRoom \in Nat \ {0}
        BY <2>3, <3>2, BufferAssumption DEF Room
      <4>2. SendRoom # 0 /\ (SendRoom < 1 => SendRoom = 1)
        BY <4>1
      <4> QED BY <3>2, <4>1, <4>2 DEF Sent
    <3> QED BY <3>1, <3>2
  <2>5. server' = server
    <3>1. ~SentShort(f, 1)
      BY <2>4 DEF SentShort
    <3> QED BY <1>1, <1>5, <2>1, <3>1
  <2>6. InFlight(f)' = InFlight(f)
    BY <1>1, <2>5 DEF InFlight
  <2>7. \A j \in Conns : sock'[j] = f => server'[j].replies.items = <<>>
    BY <1>1, <2>5 DEF Waits
  <2>8. ASSUME f \notin shut PROVE Answered(f)'
    <3>1. inbox'[f] = 1
      <4>1. inbox' = [inbox EXCEPT ![f] = @ + 1]
        <5>1. inbox' = InboxAfter(f, 1)
          BY <1>1, <1>5, <2>1
        <5>2. ~(1 < 0)
          OBVIOUS
        <5>3. InboxAfter(f, 1) = [inbox EXCEPT ![f] = @ + 1]
          BY <2>4, <2>8, <5>2 DEF InboxAfter
        <5> QED BY <5>1, <5>3
      <4>2. inbox \in [Peer -> 0..SendRoom] /\ f \in Peer
        BY <1>2 DEF NetInv, Peer
      <4> QED BY <2>3, <2>8, <4>1, <4>2
    <3>2. 1 <= 1
      OBVIOUS
    <3> QED BY <1>1, <1>3, <2>3, <2>6, <2>8, <3>1, <3>2 DEF Answered
  <2>9. "open" # "away"
    OBVIOUS
  <2> QED BY <1>1, <2>2, <2>3, <2>7, <2>8, <2>9 DEF Waits
<1> QED BY <1>4, <1>5

\* The end of a connection.
LEMMA ClosedWaits ==
    ASSUME OpenInv, TypeInv, LinkInv, phase \notin Pcomm!Ended,
           NEW k \in Conns, callback_server_closed(k), Accepted \subseteq Accepted',
           NEW f \in Feeder \ Pipelined, Waits(f)
    PROVE  Waits(f)'
<1>1. /\ Receiving(k) /\ Incoming(k) = <<>> /\ sock[k] \in shut /\ Closed(k)
      /\ reply' = 0 /\ UNCHANGED <<wire, awaiting, next>>
      /\ server' = [server EXCEPT ![k] = FreshServer]
  BY DEF callback_server_closed, feeders
<1>2. /\ k \in server_map /\ sock[k] \in Feeder /\ sock[k] \in Peer
      /\ server \in [Conns -> ServerContext] /\ NetInv /\ sock \in [Conns -> Peer \cup {None}]
      /\ f # None /\ f \in Peer
  BY <1>1, PeerAssumption DEF Receiving, OpenInv, Peer, TypeInv, ContextInv
<1>3. \A g : ~ReplyDue(g)'
  BY <1>1, NoReplyDue
<1>4. /\ \A j \in Conns : sock'[j] = f => j # k /\ sock[j] = f /\ server'[j] = server[j]
      /\ sock[k] # f => inbox'[f] = inbox[f] /\ link'[f] = link[f] /\ (f \in shut' <=> f \in shut)
      /\ sock[k] = f => inbox'[f] = 0 /\ link'[f] = "away" /\ f \notin shut'
  BY <1>1, <1>2 DEF Closed, NetInv
<1>5. CASE sock[k] # f
  <2>1. Untouched(f)
    BY <1>1, <1>3, <1>4, <1>5 DEF Untouched
  <2> QED BY <2>1, UntouchedWaits
<1>6. CASE sock[k] = f
  <2>1. wire'[f] = <<>> /\ ~awaiting'[f]
    BY <1>1, <1>6 DEF Incoming, Waits
  <2>2. \A j \in Conns : sock'[j] = f => server'[j].replies.items = <<>>
    BY <1>4 DEF Waits
  <2> QED BY <1>4, <1>6, <2>1, <2>2 DEF Waits
<1> QED BY <1>5, <1>6

\* What the callbacks of the listeners do to a waiting feeder, and those that send replies.
LEMMA ConnectUntouched ==
    ASSUME OpenInv, TypeInv, callback_server_connect \/ callback_client_connect,
           NEW f \in Feeder \ Pipelined
    PROVE  Untouched(f)
<1>1. running' = NoFd /\ UNCHANGED <<awaiting, next>>
  BY DEF callback_server_connect, callback_client_connect, Pcomm!Return, feeders
<1>2. ~ReplyDue(f)'
  BY <1>1, NoReplyDue
<1>3. /\ sock \in [Conns -> Peer \cup {None}] /\ link \in [Peer -> {"away", "queued", "open"}]
      /\ server \in [Conns -> ServerContext] /\ f \in Peer
  BY DEF OpenInv, TypeInv, NetInv, ContextInv, Peer
<1>4. CASE UNCHANGED <<net, server>>
  BY <1>1, <1>2, <1>4 DEF net, Untouched
<1>5. ASSUME NEW p \in Peer, link[p] = "queued", Unused # {}, NEW k, k = Min(Unused),
             sock' = [sock EXCEPT ![k] = p], link' = [link EXCEPT ![p] = "open"],
             UNCHANGED <<shut, wire, inbox>>,
             \/ server' = [server EXCEPT ![k] = FreshServer]
             \/ p # f /\ server' = server
      PROVE  Untouched(f)
  <2>1. k \in Conns
    BY <1>5, AcceptedIsUnused
  <2>2. link'[f] = "away" <=> link[f] = "away"
    BY <1>3, <1>5
  <2>3. \A j \in Conns : sock'[j] = f => server'[j] = FreshServer \/ (sock[j] = f /\ server'[j] = server[j])
    BY <1>3, <1>5, <2>1
  <2> QED BY <1>1, <1>2, <1>5, <2>2, <2>3 DEF Untouched
<1>6. CASE callback_server_connect
  BY <1>4, <1>5, <1>6 DEF callback_server_connect, net, Peer
<1>7. CASE callback_client_connect
  <2>1. f \notin Client
    BY PeerAssumption
  <2> QED BY <1>4, <1>5, <1>7, <2>1 DEF callback_client_connect, net, Peer
<1> QED BY <1>6, <1>7

LEMMA CanSendUntouched ==
    ASSUME OpenInv, TypeInv, NEW k \in Conns, callback_server_can_send(k),
           NEW f \in Feeder \ Pipelined, Waits(f)
    PROVE  Untouched(f)
<1>1. /\ k \in server_map /\ sock[k] \in Peer /\ server \in [Conns -> ServerContext] /\ NetInv
      /\ UNCHANGED <<sock, link, shut, wire, reply, awaiting, next>>
      /\ running' = running \/ running' = NoFd
  BY DEF callback_server_can_send, OpenInv, Peer, TypeInv, ContextInv, locals, feeders,
         Pcomm!Return, Pcomm!Continue
<1>2. ReplyDue(f)' => ReplyDue(f)
  BY <1>1, FdAssumption DEF ReplyDue, AllFds
<1>3. CASE UNCHANGED <<inbox, server>>
  BY <1>1, <1>2, <1>3 DEF Untouched
<1>4. CASE server[k].replies.items # <<>>
  <2>1. sock[k] # f
    BY <1>4 DEF Waits
  <2>2. PICK n : n = Head(server[k].replies.items)
    OBVIOUS
  <2>3. n \in Nat
    <3>1. server[k].replies.items \in Seq({1, 2})
      BY <1>1, ServerParts DEF QueueOf
    <3>2. n \in {1, 2}
      BY <1>4, <2>2, <3>1
    <3> QED BY <3>2
  <2>4. inbox' = InboxAfter(sock[k], n)
    BY <1>4, <2>2 DEF callback_server_can_send
  <2>5. inbox'[f] = inbox[f]
    BY <1>1, <2>1, <2>3, <2>4, SentFacts DEF Peer
  <2>6. \A j \in Conns \ {k} : server'[j] = server[j]
    BY <1>1, <1>4 DEF callback_server_can_send
  <2> QED BY <1>1, <1>2, <2>1, <2>5, <2>6 DEF Untouched
<1> QED BY <1>3, <1>4 DEF callback_server_can_send

\* The loop runs no callback while a reply is due.
LEMMA LoopKeepsReply ==
    ASSUME LoopInv, OpenInv, CallbackInv, LoopStep \/ SelectReturns \/ Sigterm \/ Killed
    PROVE  running' = running \/ running' = NoFd \/ reply = 0
<1>1. CASE Pcomm!StartCallback
  <2>1. running = NoFd /\ phase \notin Pcomm!Ended
    BY <1>1 DEF Pcomm!StartCallback, Pcomm!InPass, Pcomm!Stream, Pcomm!Ended
  <2>2. running \notin server_map
    BY <2>1, FdAssumption DEF OpenInv, AllFds
  <2> QED BY <2>1, <2>2, NoReplyElsewhere
<1>2. CASE ~Pcomm!StartCallback
  BY <1>2 DEF LoopStep, SelectReturns, Sigterm, Killed, Pcomm!LoopTop, Pcomm!Populate, Pcomm!ReadNullSet,
              Pcomm!EndPass, Pcomm!SelectReady, Pcomm!SelectTimeout, Pcomm!Signal, Pcomm!Kill
<1> QED BY <1>1, <1>2

LEMMA RestartUntouched ==
    ASSUME OpenInv, TypeInv, Restart, NEW f \in Feeder PROVE Untouched(f) /\ link[f] = "away"
<1>1. /\ \A k \in Conns : sock'[k] = None
      /\ reply' = 0 /\ link[f] = "away"
      /\ UNCHANGED <<link, shut, wire, inbox, awaiting, next>>
  BY DEF Restart, feeders, Peer
<1>2. f # None
  BY PeerAssumption DEF Peer
<1>3. ~ReplyDue(f)'
  BY <1>1, NoReplyDue
<1> QED BY <1>1, <1>2, <1>3 DEF Untouched

\* What the peers do to a waiting feeder.
LEMMA PeerWaits ==
    ASSUME OpenInv, TypeInv, TypeInv', LinkInv, FlightInv, Accepted' = Accepted,
           PeerStep, NEW f \in Feeder \ Pipelined, Waits(f)
    PROVE  Waits(f)'
<1>1. /\ UNCHANGED <<sock, server, running, reply, phase>>
      /\ sock \in [Conns -> Peer \cup {None}] /\ NetInv /\ f \in Peer /\ f # None /\ f \notin Client
      /\ next \in [Feeder -> Nat \ {0}] /\ awaiting \in [Feeder -> BOOLEAN]
  BY PeersLeave, PeerAssumption DEF OpenInv, TypeInv, LocalInv, Peer, pcomm_vars, locals
<1>2. ReplyDue(f)' <=> ReplyDue(f)
  BY <1>1 DEF ReplyDue
<1>3. ASSUME awaiting'[f] = awaiting[f], next'[f] = next[f], inbox'[f] = inbox[f], wire'[f] = wire[f],
             link'[f] = link[f], f \in shut' <=> f \in shut
      PROVE  Waits(f)'
  <2>1. Untouched(f)
    BY <1>1, <1>2, <1>3 DEF Untouched
  <2> QED BY <2>1, UntouchedWaits
<1>4. /\ \A k \in Conns : sock'[k] = f => server'[k].replies.items = <<>>
      /\ \A w : w = wire[f] => w \in Seq(Message) /\ (ToSet(w) = {} => w = <<>>)
  <2>1. wire[f] \in Seq(Message)
    BY <1>1 DEF NetInv
  <2> QED BY <1>1, <2>1, SetOfList DEF Waits
<1>5. ASSUME NEW p \in Peer, Connect(p) PROVE Waits(f)'
  <2>1. /\ phase \notin Pcomm!Ended /\ link[p] = "away" /\ link' = [link EXCEPT ![p] = "queued"]
        /\ UNCHANGED <<shut, wire, inbox, awaiting, next>>
    BY <1>5 DEF Connect, Listening, feeders
  <2>2. CASE p # f
    BY <1>1, <1>3, <2>1, <2>2 DEF NetInv
  <2>3. CASE p = f
    <3>1. \A k \in Conns : sock[k] # f
      BY <1>1, <2>1, <2>3 DEF LinkInv
    <3>2. wire[f] = <<>> /\ inbox[f] = 0 /\ f \notin shut /\ ~awaiting[f] /\ ToSet(<<>>) = {}
      BY <2>1, <2>3, EmptyQueueFacts DEF Waits, EmptyQueue
    <3>3. \A m : m \notin InFlight(f)'
      BY <1>1, <2>1, <3>1, <3>2, InFlightOf
    <3>4. ~ReplyDue(f)
      BY <3>1 DEF ReplyDue
    <3>5. link'[f] = "queued" /\ "queued" # "away" /\ InFlight(f)' = {}
      BY <1>1, <2>1, <2>3, <3>3 DEF NetInv
    <3> QED BY <1>2, <1>4, <2>1, <3>2, <3>4, <3>5 DEF Waits
  <2> QED BY <2>2, <2>3
<1>6. ASSUME NEW p \in Peer, HangUp(p) PROVE Waits(f)'
  <2>1. /\ link[p] # "away" /\ shut' = shut \cup {p} /\ UNCHANGED <<link, inbox, next>>
        /\ \/ awaiting' = [awaiting EXCEPT ![p] = FALSE]
              /\ (wire' = wire \/ \E x : wire' = [wire EXCEPT ![p] = x])
           \/ p \notin Feeder /\ UNCHANGED <<awaiting, wire>>
    BY <1>6 DEF HangUp
  <2>2. CASE p # f
    BY <1>1, <1>3, <2>1, <2>2 DEF NetInv
  <2>3. CASE p = f
    <3>1. f \in shut' /\ ~awaiting'[f] /\ link'[f] # "away"
      BY <1>1, <2>1, <2>3
    <3> QED BY <1>4, <3>1 DEF Waits
  <2> QED BY <2>2, <2>3
<1>7. ASSUME NEW p \in Peer, ConnectionLost(p) PROVE Waits(f)'
  <2>1. /\ link' = [link EXCEPT ![p] = "away"] /\ shut' = shut \ {p} /\ inbox' = [inbox EXCEPT ![p] = 0]
        /\ next' = next
        /\ \/ wire' = [wire EXCEPT ![p] = <<>>] /\ awaiting' = [awaiting EXCEPT ![p] = FALSE]
           \/ p \notin Feeder /\ UNCHANGED <<awaiting, wire>>
    BY <1>7 DEF ConnectionLost
  <2>2. CASE p # f
    BY <1>1, <1>3, <2>1, <2>2 DEF NetInv
  <2>3. CASE p = f
    <3>1. f \notin shut' /\ ~awaiting'[f] /\ link'[f] = "away" /\ inbox'[f] = 0 /\ wire'[f] = <<>>
      BY <1>1, <2>1, <2>3 DEF NetInv
    <3> QED BY <1>4, <3>1 DEF Waits
  <2> QED BY <2>2, <2>3
<1>8. ASSUME NEW g \in Feeder, SendRecord(g) PROVE Waits(f)'
  <2>1. /\ link[g] # "away" /\ g \notin shut /\ ~awaiting[g] /\ UNCHANGED <<link, shut, inbox>>
        /\ \/ g \in Pipelined /\ next' = [next EXCEPT ![g] = @ + 1] /\ awaiting' = awaiting
           \/ g \notin Pipelined /\ next' = next /\ awaiting' = [awaiting EXCEPT ![g] = TRUE]
    BY <1>8 DEF SendRecord
  <2>2. /\ \A n \in InFlight(g)' : n \in InFlight(g) \/ n.no = next[g]
        /\ Len(wire'[g]) = Len(wire[g]) + RecordUnits
        /\ \A h \in Feeder \ {g} : wire'[h] = wire[h]
    BY <1>8, SendInFlight
  <2>3. CASE g # f
    <3>1. awaiting'[f] = awaiting[f] /\ next'[f] = next[f]
      BY <1>1, <2>1, <2>3
    <3> QED BY <1>3, <2>1, <2>2, <2>3, <3>1
  <2>4. CASE g = f
    <3>1. InFlight(f) = {} /\ inbox[f] = 0 /\ ~ReplyDue(f)
      BY <2>1, <2>4 DEF Waits
    <3>2. wire[f] = <<>> /\ Len(<<>>) = 0
      <4>1. ToSet(wire[f]) = {}
        BY <3>1, InFlightOf
      <4> QED BY <1>4, <4>1, EmptySeq
    <3>3. Len(wire'[f]) = RecordUnits /\ RecordUnits \in Nat
      <4>1. RecordUnits \in Nat
        BY BufferAssumption
      <4>2. Len(wire'[f]) = 0 + RecordUnits
        BY <2>2, <2>4, <3>2
      <4> QED BY <4>1, <4>2
    <3>4. ASSUME NEW k \in Conns, sock'[k] = f PROVE Len(server'[k].buffer) = 0
      <4>1. PICK b : b = server[k].buffer
        OBVIOUS
      <4>2. b \in Seq(Message) /\ ToSet(b) = {}
        <5>1. server[k] \in ServerContext
          BY DEF TypeInv, ContextInv
        <5>2. b \in Seq(Message)
          BY <4>1, <5>1, ServerParts
        <5>3. sock[k] = f
          BY <1>1, <3>4
        <5>4. \A m : m \notin ToSet(b)
          BY <3>1, <4>1, <5>3, InFlightOf
        <5> QED BY <5>2, <5>4
      <4>3. b = <<>>
        BY <4>2, SetOfList
      <4> QED BY <1>1, <3>2, <4>1, <4>3
    <3>5. 0 + RecordUnits <= RecordUnits /\ RecordUnits <= RecordUnits
      BY <3>3
    <3>6. \A k \in Conns : sock'[k] = f => Len(server'[k].buffer) + Len(wire'[f]) <= RecordUnits
      BY <3>3, <3>4, <3>5
    <3>7. next' = next /\ awaiting'[f]
      BY <1>1, <2>1, <2>4
    <3>8. OnItsWay(f)'
      BY <1>2, <2>1, <2>2, <2>4, <3>1, <3>3, <3>5, <3>6, <3>7 DEF OnItsWay
    <3> QED BY <1>4, <2>1, <2>4, <3>7, <3>8 DEF Waits
  <2> QED BY <2>3, <2>4
<1>9. ASSUME NEW g \in Feeder, GetReply(g) PROVE Waits(f)'
  <2>1. /\ awaiting[g] /\ inbox[g] > 0 /\ g \notin shut /\ UNCHANGED <<link, shut, wire>>
        /\ inbox' = [inbox EXCEPT ![g] = @ - 1]
        /\ awaiting' = [awaiting EXCEPT ![g] = FALSE] /\ next' = [next EXCEPT ![g] = @ + 1]
    BY <1>9 DEF GetReply
  <2>2. CASE g # f
    BY <1>1, <1>3, <2>1, <2>2 DEF NetInv
  <2>3. CASE g = f
    <3>1. inbox[f] \in Nat
      BY <1>1, BufferAssumption DEF NetInv
    <3>2. link[f] # "away" /\ Answered(f) /\ inbox[f] # 0
      <4>1. awaiting[f] /\ inbox[f] # 0
        BY <2>1, <2>3, <3>1
      <4> QED BY <4>1 DEF Waits, OnItsWay
    <3>3. InFlight(f) = {} /\ inbox[f] = 1 /\ ~ReplyDue(f)
      BY <3>1, <3>2 DEF Answered
    <3>4. InFlight(f)' = InFlight(f)
      BY <1>1, <2>1 DEF InFlight
    <3>5. inbox'[f] = 0 /\ ~awaiting'[f]
      BY <1>1, <2>1, <2>3, <3>3 DEF NetInv
    <3> QED BY <1>2, <1>4, <2>1, <2>3, <3>2, <3>3, <3>4, <3>5 DEF Waits
  <2> QED BY <2>2, <2>3
<1>10. ASSUME NEW c \in Client, ClientReads(c) PROVE Waits(f)'
  <2>1. UNCHANGED <<link, shut, wire, awaiting, next>> /\ inbox' = [inbox EXCEPT ![c] = @ - 1]
    BY <1>10 DEF ClientReads, feeders
  <2>2. inbox'[f] = inbox[f]
    BY <1>1, <2>1 DEF NetInv
  <2> QED BY <1>3, <2>1, <2>2
<1>11. ASSUME NEW k \in Conns, Elapse(k) PROVE Waits(f)'
  BY <1>3, <1>11 DEF Elapse, net, feeders
<1> QED BY <1>5, <1>6, <1>7, <1>8, <1>9, <1>10, <1>11 DEF PeerStep

LEMMA WaitStep ==
    ASSUME LoopInv, OpenInv, OpenInv', TypeInv, TypeInv', HeldInv, HeldInv', LengthInv, LinkInv,
           OrderInv, FlightInv, CallbackInv, [Next]_vars, NEW f \in Feeder \ Pipelined, Waits(f)
    PROVE  Waits(f)'
<1>1. /\ \A k \in Conns : ReceiveRecord(k) /\ reply' = 1 => Accepted' = Accepted \cup {FirstOf(k)}
      /\ ~Restart /\ (\A k \in Conns : ReceiveRecord(k) => reply' # 1) => Accepted' = Accepted
  BY OrderStep
<1>2. \A k \in Conns : ReceiveRecord(k) => reply' \in {1, 2} /\ ~Restart
  BY ReceivedRecord DEF ReceiveRecord, Receiving, Restart, Pcomm!Start, Pcomm!Ended
<1>3. ~Restart => Accepted \subseteq Accepted'
  BY <1>1
<1>4. Untouched(f) => Waits(f)'
  <2>1. Restart => link[f] = "away"
    BY RestartUntouched
  <2> QED BY <1>3, <2>1, UntouchedWaits
<1>5. CASE CallbackStep
  <2>1. phase \notin Pcomm!Ended /\ ~Restart
    BY <1>5, CallbackGoesOn DEF Restart, Pcomm!Start
  <2>2. CASE callback_archive
    <3>1. UNCHANGED <<reply, server, awaiting, next, net>> /\ (running' = running \/ running' = NoFd)
      BY <2>2 DEF callback_archive, ArchiveData, CombineLog, HoldLog, ArchiveDone, locals, contexts,
                  feeders, Pcomm!Return, Pcomm!Continue
    <3>2. Untouched(f)
      BY <3>1, OthersUntouched
    <3> QED BY <1>4, <3>2
  <2>3. CASE callback_server_connect \/ callback_client_connect
    BY <1>4, <2>3, ConnectUntouched
  <2>4. ASSUME NEW k \in Conns, ReceivePiece(k) PROVE Waits(f)'
    <3>1. reply' # 1
      BY <2>4 DEF ReceivePiece
    <3>2. Accepted' = Accepted
      BY <1>1, <2>1, <3>1
    <3> QED BY <2>1, <2>4, <3>2, PieceWaits
  <2>5. ASSUME NEW k \in Conns, ReceiveRecord(k) PROVE Waits(f)'
    <3>1. \A j \in Conns : ReceiveRecord(j) => j = k
      BY <2>5 DEF ReceiveRecord, Receiving
    <3>2. Accepted \subseteq Accepted' /\ Accepted' \subseteq Accepted \cup {FirstOf(k)}
          /\ (reply' = 1 => Accepted' = Accepted \cup {FirstOf(k)})
      BY <1>1, <2>1, <2>5, <3>1
    <3> QED BY <2>1, <2>5, <3>2, RecordWaits
  <2>6. ASSUME NEW k \in Conns, SendReply(k) PROVE Waits(f)'
    BY <1>3, <2>1, <2>6, ReplyWaits
  <2>7. ASSUME NEW k \in Conns, ReceiveNothing(k) PROVE Waits(f)'
    <3>1. UNCHANGED <<reply, server, awaiting, next, net>> /\ running' = NoFd
      BY <2>7 DEF ReceiveNothing, contexts, feeders, Pcomm!Return
    <3>2. Untouched(f)
      BY <3>1, OthersUntouched
    <3> QED BY <1>4, <3>2
  <2>8. ASSUME NEW k \in Conns, callback_server_closed(k) PROVE Waits(f)'
    BY <1>3, <2>1, <2>8, ClosedWaits
  <2>9. ASSUME NEW k \in Conns, callback_server_can_send(k) PROVE Waits(f)'
    BY <1>4, <2>9, CanSendUntouched
  <2>10. ASSUME NEW k \in Conns, add_client_record(k) \/ RetireOldClient(k) PROVE Waits(f)'
    <3>1. /\ UNCHANGED <<reply, server, awaiting, next, running, wire>> /\ k \in client_map
          /\ UNCHANGED <<sock, link, shut, inbox>> \/ Closed(k)
      BY <2>10 DEF add_client_record, RetireOldClient, ClientClosed, feeders, Pcomm!Continue, OpenInv
    <3>2. UNCHANGED net \/ (wire' = wire /\ Closed(k))
      BY <3>1 DEF net
    <3>3. Untouched(f)
      BY <3>1, <3>2, OthersUntouched
    <3> QED BY <1>4, <3>3
  <2>11. ASSUME NEW k \in Conns, callback_client_can_send(k) PROVE Waits(f)'
    <3>1. /\ UNCHANGED <<reply, server, awaiting, next, wire, sock, link, shut>> /\ k \in client_map
          /\ running' = running \/ running' = NoFd
          /\ inbox' = InboxAfter(sock[k], Left(client[k]))
      BY <2>11 DEF callback_client_can_send, locals, feeders, Pcomm!Return, Pcomm!Continue
    <3>2. Left(client[k]) \in Nat
      <4>1. client[k] \in ClientContext /\ RecordUnits \in Nat
        BY BufferAssumption DEF TypeInv, ContextInv
      <4>2. client[k].offset \in Nat /\ client[k].offset < RecordUnits
        BY <4>1 DEF ClientContext
      <4> QED BY <4>1, <4>2 DEF Left
    <3>3. Untouched(f)
      BY <3>1, <3>2, OthersUntouched
    <3> QED BY <1>4, <3>3
  <2>12. ASSUME NEW k \in Conns, ClientDrained(k) PROVE Waits(f)'
    <3>1. UNCHANGED <<reply, server, awaiting, next, net>> /\ running' = NoFd
      BY <2>12 DEF ClientDrained, contexts, locals, feeders, Pcomm!Return
    <3>2. Untouched(f)
      BY <3>1, OthersUntouched
    <3> QED BY <1>4, <3>2
  <2> QED BY <1>5, <2>2, <2>3, <2>4, <2>5, <2>6, <2>7, <2>8, <2>9, <2>10, <2>11, <2>12 DEF CallbackStep
<1>6. CASE LoopStep \/ SelectReturns \/ Sigterm \/ Killed
  <2>1. UNCHANGED <<reply, server, awaiting, next, net>>
    BY <1>6, LoopLeaves DEF contexts, feeders
  <2>2. Untouched(f)
    BY <1>6, <2>1, LoopKeepsReply, OthersUntouched
  <2> QED BY <1>4, <2>2
<1>7. CASE Restart
  BY <1>4, <1>7, RestartUntouched
<1>8. CASE PeerStep
  <2>1. UNCHANGED records
    BY <1>8, PeersLeave
  <2>2. Accepted' = Accepted
    BY <2>1 DEF records, Accepted, MessagesOf, HeldBack, Queued
  <2> QED BY <1>8, <2>2, PeerWaits
<1>9. CASE UNCHANGED vars
  <2>1. UNCHANGED <<reply, server, awaiting, next, running, net>>
    BY <1>9 DEF vars, pcomm_vars, contexts, locals, feeders
  <2>2. Untouched(f)
    BY <2>1, OthersUntouched
  <2> QED BY <1>4, <2>2
<1> QED BY <1>5, <1>6, <1>7, <1>8, <1>9 DEF Next, ArchdStep

LEMMA WaitInvariance == Spec => []WaitInv
<1>1. Init => WaitInv
  <2> SUFFICES ASSUME Init, NEW f \in Feeder \ Pipelined PROVE Waits(f)
    BY DEF WaitInv
  <2>1. f \in Peer /\ f # None
    BY PeerAssumption DEF Peer
  <2>2. link[f] = "away" /\ wire[f] = <<>> /\ inbox[f] = 0 /\ f \notin shut /\ ~awaiting[f]
        /\ \A k \in Conns : sock[k] # f
    BY <2>1 DEF Init
  <2> QED BY <2>2 DEF Waits
<1>2. LoopInv /\ OpenInv /\ OpenInv' /\ TypeInv /\ TypeInv' /\ HeldInv /\ HeldInv' /\ LengthInv
      /\ LinkInv /\ OrderInv /\ FlightInv /\ CallbackInv /\ WaitInv /\ [Next]_vars => WaitInv'
  BY WaitStep DEF WaitInv
<1> QED BY <1>1, <1>2, LoopInvariance, OpenInvariance, TypeInvariance, HeldInvariance, LengthInvariance,
           ReadyInvariance, OrderInvariance, CallbackInvariance, PTL DEF Spec

-----------------------------------------------------------------------------
(* The step of ArchiveService that a step of archd is.                     *)

HeldOf == [m \in Payload |-> Times(m, content, InMemory)]
StoredOf == [m \in Payload |-> Times(m, archived, DOMAIN archived)]
AckedOf == {m \in Payload : m.from \notin Pipelined /\ m.no < next[m.from] /\ KindOf(m) # "control"}

\* How often m is in the LOG record l, if there is one.
InLog(m, c, l) == IF l = None THEN 0 ELSE TimesIn(m, c[l])

LEMMA TimesInMemory ==
    ASSUME NEW m, NEW c \in [Rec -> Seq(Message)], NEW q \in Seq(Rec), NEW l \in Rec \cup {None},
           l \notin ToSet(q)
    PROVE  /\ Times(m, c, ToSet(q) \cup ({l} \ {None})) = Times(m, c, ToSet(q)) + InLog(m, c, l)
           /\ Times(m, c, ToSet(q)) \in Nat /\ InLog(m, c, l) \in Nat
<1>1. PICK Q : Q = ToSet(q)
  OBVIOUS
<1>2. Q \subseteq Rec /\ IsFiniteSet(Q)
  <2>1. Len(q) \in Nat /\ DOMAIN q = 1..Len(q) /\ Q \subseteq Rec
    BY <1>1, LenProperties, SetOfList
  <2>2. IsFiniteSet(1..Len(q))
    BY <2>1, FS_Interval
  <2>3. q \in Surjection(1..Len(q), Q)
    <3>1. q \in [1..Len(q) -> Q]
      BY <1>1, <2>1 DEF ToSet
    <3>2. \A x \in Q : \E i \in 1..Len(q) : q[i] = x
      BY <1>1, <2>1 DEF ToSet
    <3> QED BY <3>1, <3>2 DEF Surjection
  <2> QED BY <2>1, <2>2, <2>3, FS_Surjection
<1>3. None \notin Rec /\ \A r \in Q : c[r] \in Seq(Message)
  BY <1>2, BufferAssumption
<1>4. Times(m, c, Q) \in Nat
  BY <1>2, <1>3, PlacesFinite
<1>5. CASE l = None
  <2>1. Q \cup ({l} \ {None}) = Q
    BY <1>5
  <2>2. InLog(m, c, l) = 0
    BY <1>5 DEF InLog
  <2>3. Times(m, c, ToSet(q) \cup ({l} \ {None})) = Times(m, c, Q)
    BY <1>1, <2>1
  <2> QED BY <1>1, <1>4, <2>2, <2>3
<1>6. CASE l # None
  <2>1. PICK L : L = {l} \ {None}
    OBVIOUS
  <2>2. L = {l} /\ c[l] \in Seq(Message)
    BY <1>6, <2>1
  <2>3. IsFiniteSet(L) /\ Q \cap L = {}
    BY <1>1, <2>2, FS_Singleton
  <2>4. \A r \in Q \cup L : c[r] \in Seq(Message)
    BY <1>3, <2>2
  <2>5. Times(m, c, Q \cup L) = Times(m, c, Q) + Times(m, c, L)
    BY <1>2, <2>3, <2>4, TimesOfBoth
  <2>6. Times(m, c, L) = TimesIn(m, c[l])
    <3>1. c[l] \in Seq(Message)
      BY <2>2
    <3>2. L = {l}
      BY <2>2
    <3>3. c \in [Rec -> Seq(Message)] /\ l \in Rec
      BY <1>6
    <3> QED BY <3>2, <3>3, TimesOfOne
  <2>7. Times(m, c, L) \in Nat
    <3>1. \A r \in L : c[r] \in Seq(Message)
      BY <2>4
    <3> QED BY <2>3, <3>1, PlacesFinite
  <2> QED BY <1>1, <1>4, <1>6, <2>1, <2>5, <2>6, <2>7 DEF InLog
<1> QED BY <1>5, <1>6

LEMMA HeldTimes ==
    ASSUME TypeInv, TypeInv', HeldInv, HeldInv', NEW m
    PROVE  /\ Times(m, content, InMemory)
                = Times(m, content, ToSet(record_queue.items)) + InLog(m, content, log_message)
           /\ Times(m, content, ToSet(record_queue.items)) \in Nat /\ InLog(m, content, log_message) \in Nat
           /\ Times(m, content', InMemory')
                = Times(m, content', ToSet(record_queue'.items)) + InLog(m, content', log_message')
           /\ Times(m, content', ToSet(record_queue'.items)) \in Nat
           /\ InLog(m, content', log_message') \in Nat
<1>1. /\ record_queue.items \in Seq(Rec) /\ content \in [Rec -> Seq(Message)]
      /\ log_message \in Rec \cup {None} /\ log_message \notin ToSet(record_queue.items)
  BY DEF TypeInv, RecordInv, QueueOf, HeldInv, OnceInv
<1>2. /\ record_queue'.items \in Seq(Rec) /\ content' \in [Rec -> Seq(Message)]
      /\ log_message' \in Rec \cup {None} /\ log_message' \notin ToSet(record_queue'.items)
  BY DEF TypeInv, RecordInv, QueueOf, HeldInv, OnceInv
<1> QED BY <1>1, <1>2, TimesInMemory DEF InMemory

\* The oldest record leaves the record queue.
LEMMA TimesTaken ==
    ASSUME OpenInv, TypeInv, TypeInv', HeldInv, HeldInv', NEW x \in Message, Takes(x), NEW m
    PROVE  Times(m, content, ToSet(record_queue.items))
              = Times(m, content', ToSet(record_queue'.items)) + One(x = m)
<1>1. PICK q, t, h : q = record_queue.items /\ t = record_queue'.items /\ h = Head(q)
  OBVIOUS
<1>2. q \in Seq(Rec) /\ q # <<>> /\ IsInjective(q) /\ t = Tail(q) /\ content[h] = <<x>>
      /\ \A r \in ToSet(t) : content'[r] = content[r]
  BY <1>1 DEF Takes, TypeInv, RecordInv, QueueOf, HeldInv, OnceInv
<1>3. h \in Rec /\ h \in ToSet(q) /\ ToSet(t) = ToSet(q) \ {h}
  BY <1>1, <1>2, TakenCount DEF HeldInv, Taken
<1>4. PICK R, H : R = ToSet(t) /\ H = {h}
  OBVIOUS
<1>5. /\ IsFiniteSet(ToSet(q)) /\ ToSet(q) \subseteq Rec /\ content \in [Rec -> Seq(Message)]
  BY <1>1, InMemoryFacts
<1>6. ToSet(q) = R \cup H /\ R \cap H = {} /\ R \in SUBSET ToSet(q)
  BY <1>3, <1>4
<1>7. IsFiniteSet(R) /\ IsFiniteSet(H)
  BY <1>4, <1>5, <1>6, FS_Subset, FS_Singleton
<1>8. \A r \in R \cup H : content[r] \in Seq(Message)
  BY <1>5, <1>6
<1>9. Times(m, content, R \cup H) = Times(m, content, R) + Times(m, content, H)
  BY <1>6, <1>7, <1>8, TimesOfBoth
<1>10. Times(m, content, H) = TimesIn(m, content[h])
  BY <1>3, <1>4, <1>5, TimesOfOne
<1>11. TimesIn(m, content[h]) = One(x = m)
  BY <1>2, TimesOfSingle
<1>12. Times(m, content', R) = Times(m, content, R)
  <2>1. \A r \in R : content'[r] = content[r]
    BY <1>2, <1>4
  <2> QED BY <2>1, TimesOfSame
<1> QED BY <1>1, <1>4, <1>6, <1>9, <1>10, <1>11, <1>12

\* What callback_archive does to how often m is in memory and in the archive.
LEMMA TimesMoved ==
    ASSUME OpenInv, TypeInv, TypeInv', HeldInv, HeldInv', archived \in Seq(Seq(Message)),
           NEW x \in Message, Stores(x) \/ AddsToHeld(x) \/ ReplacesHeld(x), NEW m
    PROVE  LET before == Times(m, archived, DOMAIN archived)
               after == Times(m, archived', DOMAIN archived')
           IN  /\ Times(m, content', InMemory') + after = Times(m, content, InMemory) + before
               /\ after >= before
<1>1. PICK a, b, s, t, l, k, o :
          /\ a = Times(m, archived, DOMAIN archived) /\ b = Times(m, archived', DOMAIN archived')
          /\ s = Times(m, content, ToSet(record_queue.items))
          /\ t = Times(m, content', ToSet(record_queue'.items))
          /\ l = InLog(m, content, log_message) /\ k = InLog(m, content', log_message')
          /\ o = One(x = m)
  OBVIOUS
<1>2. /\ Times(m, content, InMemory) = s + l /\ Times(m, content', InMemory') = t + k
      /\ s \in Nat /\ l \in Nat /\ t \in Nat /\ k \in Nat
  BY <1>1, HeldTimes
<1>3. s = t + o /\ o \in Nat
  <2>1. Takes(x)
    BY DEF Stores, AddsToHeld, ReplacesHeld
  <2>2. s = t + o
    BY <1>1, <2>1, TimesTaken
  <2> QED BY <1>1, <2>2 DEF One
<1>4. \A y \in Seq(Seq(Message)) : Times(m, y, DOMAIN y) \in Nat
  <2> SUFFICES ASSUME NEW y \in Seq(Seq(Message)) PROVE Times(m, y, DOMAIN y) \in Nat
    OBVIOUS
  <2>1. DOMAIN y = 1..Len(y) /\ Len(y) \in Nat /\ \A i \in DOMAIN y : y[i] \in Seq(Message)
    BY LenProperties, ElementOfSeq
  <2>2. IsFiniteSet(DOMAIN y)
    BY <2>1, FS_Interval
  <2> QED BY <2>1, <2>2, PlacesFinite
<1>5. a \in Nat
  BY <1>1, <1>4
<1>6. <<x>> \in Seq(Message) /\ TimesIn(m, <<x>>) = o
  BY <1>1, TimesOfSingle
<1>7. content \in [Rec -> Seq(Message)] /\ log_message \in Rec \cup {None}
  BY InMemoryFacts
<1>8. CASE Stores(x)
  <2>1. b = a + o
    <3>1. archived' = Append(archived, <<x>>)
      BY <1>8 DEF Stores
    <3>2. Times(m, Append(archived, <<x>>), DOMAIN Append(archived, <<x>>))
            = Times(m, archived, DOMAIN archived) + TimesIn(m, <<x>>)
      BY <1>6, TimesArchived, ZenonT(30)
    <3> QED BY <1>1, <1>6, <3>1, <3>2
  <2>2. k = l
    BY <1>1, <1>8 DEF Stores, InLog
  <2> QED BY ONLY <1>1, <1>2, <1>3, <1>5, <2>1, <2>2
<1>9. CASE AddsToHeld(x)
  <2>1. b = a
    BY <1>1, <1>9 DEF AddsToHeld
  <2>2. k = l + o
    <3>1. log_message # None /\ log_message' = log_message
          /\ content'[log_message] = content[log_message] \o <<x>>
      BY <1>9 DEF AddsToHeld
    <3>2. TimesIn(m, content[log_message] \o <<x>>) = TimesIn(m, content[log_message]) + o
      BY <1>1, <1>7, <3>1, TimesOfLonger
    <3> QED BY <1>1, <3>1, <3>2 DEF InLog
  <2> QED BY ONLY <1>1, <1>2, <1>3, <1>5, <2>1, <2>2
<1>10. CASE ReplacesHeld(x)
  <2>1. PICK w : w = WithHeld
    OBVIOUS
  <2>2. w \in Seq(Seq(Message)) /\ Times(m, w, DOMAIN w) = a + l
    <3>1. CASE log_message = None
      BY <1>1, <1>5, <2>1, <3>1 DEF WithHeld, InLog
    <3>2. CASE log_message # None
      <4>1. content[log_message] \in Seq(Message) /\ w = Append(archived, content[log_message])
        BY <1>7, <2>1, <3>2 DEF WithHeld
      <4>2. w \in Seq(Seq(Message))
        BY <4>1, AppendProperties
      <4> QED BY <1>1, <3>2, <4>1, <4>2, TimesArchived DEF InLog
    <3> QED BY <3>1, <3>2
  <2>3. CASE archived' = Append(w, <<x>>) /\ log_message' = None
    <3>1. b = (a + l) + o
      BY <1>1, <1>6, <2>2, <2>3, TimesArchived, ZenonT(30)
    <3>2. k = 0
      BY <1>1, <2>3 DEF InLog
    <3> QED BY ONLY <1>1, <1>2, <1>3, <1>5, <3>1, <3>2
  <2>4. CASE /\ archived' = w /\ log_message' = Head(record_queue.items)
             /\ content'[Head(record_queue.items)] = <<x>>
    <3>1. b = a + l
      BY <1>1, <2>2, <2>4
    <3>2. k = o
      <4>1. record_queue.items # <<>>
        BY <1>10 DEF ReplacesHeld, Takes
      <4>2. Head(record_queue.items) \in Rec
        BY <4>1, TakenCount DEF HeldInv
      <4>3. log_message' # None
        BY <2>4, <4>2, BufferAssumption
      <4> QED BY <1>1, <1>6, <2>4, <4>3 DEF InLog
    <3> QED BY ONLY <1>1, <1>2, <1>3, <1>5, <3>1, <3>2
  <2> QED BY <1>10, <2>1, <2>3, <2>4 DEF ReplacesHeld
<1> QED BY <1>8, <1>9, <1>10

LEMMA Refining ==
    /\ /\ \A m \in Payload : /\ HeldOf'[m] + StoredOf'[m] = HeldOf[m] + StoredOf[m]
                              /\ StoredOf'[m] >= StoredOf[m]
       /\ AckedOf' = AckedOf
       => Service!Store
    /\ \A m \in Payload : HeldOf' = [HeldOf EXCEPT ![m] = @ + 1] /\ StoredOf' = StoredOf /\ AckedOf' = AckedOf
                          => Service!Accept
    /\ \A m \in Payload : HeldOf[m] + StoredOf[m] > 0 /\ AckedOf' = AckedOf \cup {m}
                          /\ HeldOf' = HeldOf /\ StoredOf' = StoredOf
                          => Service!Acknowledge
    /\ HeldOf' = [m \in Payload |-> 0] /\ StoredOf' = StoredOf /\ AckedOf' = AckedOf => Service!Restart
    /\ HeldOf' = HeldOf /\ StoredOf' = StoredOf /\ AckedOf' = AckedOf => UNCHANGED Service!service_vars
    /\ HeldOf = [m \in Payload |-> 0] /\ StoredOf = [m \in Payload |-> 0] /\ AckedOf = {} => Service!Init
<1>1. /\ \A m \in Payload : /\ HeldOf'[m] + StoredOf'[m] = HeldOf[m] + StoredOf[m]
                              /\ StoredOf'[m] >= StoredOf[m]
      /\ AckedOf' = AckedOf
      => Service!Store
  BY DEF HeldOf, StoredOf, AckedOf, Service!Store
<1>2. ASSUME NEW m \in Payload, HeldOf' = [HeldOf EXCEPT ![m] = @ + 1], StoredOf' = StoredOf, AckedOf' = AckedOf
      PROVE  Service!Accept
  BY <1>2 DEF HeldOf, StoredOf, AckedOf, Service!Accept
<1>3. ASSUME NEW m \in Payload, HeldOf[m] + StoredOf[m] > 0, AckedOf' = AckedOf \cup {m},
             HeldOf' = HeldOf, StoredOf' = StoredOf
      PROVE  Service!Acknowledge
  BY <1>3 DEF HeldOf, StoredOf, AckedOf, Service!Acknowledge
<1>4. HeldOf' = [m \in Payload |-> 0] /\ StoredOf' = StoredOf /\ AckedOf' = AckedOf => Service!Restart
  BY DEF HeldOf, StoredOf, AckedOf, Service!Restart, Service!Nowhere
<1>5. HeldOf' = HeldOf /\ StoredOf' = StoredOf /\ AckedOf' = AckedOf => UNCHANGED Service!service_vars
  BY DEF HeldOf, StoredOf, AckedOf, Service!service_vars
<1>6. HeldOf = [m \in Payload |-> 0] /\ StoredOf = [m \in Payload |-> 0] /\ AckedOf = {} => Service!Init
  BY DEF HeldOf, StoredOf, AckedOf, Service!Init, Service!Nowhere
<1> QED BY <1>1, <1>2, <1>3, <1>4, <1>5, <1>6

\* Steps that leave the records in memory alone, and those that add one.
LEMMA SameTimes ==
    ASSUME SameRecords PROVE HeldOf' = HeldOf /\ StoredOf' = StoredOf
<1>1. InMemory' = InMemory /\ archived' = archived
  BY DEF SameRecords, InMemory
<1>2. \A m : Times(m, content', InMemory) = Times(m, content, InMemory)
  <2>1. \A r \in InMemory : content'[r] = content[r]
    BY DEF SameRecords
  <2> QED BY <2>1, TimesOfSame
<1> QED BY <1>1, <1>2 DEF HeldOf, StoredOf

LEMMA ReceivedTimes ==
    ASSUME TypeInv, TypeInv', NEW x \in Payload, Receives(x)
    PROVE  HeldOf' = [HeldOf EXCEPT ![x] = @ + 1] /\ StoredOf' = StoredOf
<1>1. PICK b \in Rec \ InMemory :
          /\ record_queue'.items = Append(record_queue.items, b) /\ content'[b] = <<x>>
          /\ archived' = archived /\ log_message' = log_message
          /\ \A r \in InMemory : content'[r] = content[r]
  BY DEF Receives
<1>2. /\ record_queue.items \in Seq(Rec) /\ IsFiniteSet(InMemory) /\ InMemory \subseteq Rec
      /\ content \in [Rec -> Seq(Message)]
  BY InMemoryFacts
<1>3. content' \in [Rec -> Seq(Message)]
  BY DEF TypeInv, RecordInv
<1>4. PICK B, M : B = {b} /\ M = InMemory
  OBVIOUS
<1>5. InMemory' = M \cup B /\ M \cap B = {}
  <2>1. ToSet(Append(record_queue.items, b)) = ToSet(record_queue.items) \cup {b}
    <3>1. PICK q : q = record_queue.items
      OBVIOUS
    <3>2. q \in Seq(Rec) /\ <<b>> \in Seq(Rec) /\ Append(q, b) = q \o <<b>>
      BY <1>2, <3>1, AppendIsConcat
    <3>3. ToSet(<<b>>) = {b}
      BY DEF ToSet
    <3>4. ToSet(q \o <<b>>) = ToSet(q) \cup ToSet(<<b>>)
      BY <3>2, SetOfConcat, ZenonT(30)
    <3> QED BY <3>1, <3>2, <3>3, <3>4
  <2> QED BY <1>1, <1>4, <2>1 DEF InMemory
<1>6. x \in Message
  BY PayloadFacts
<1>7. ASSUME NEW m PROVE Times(m, content', InMemory') = Times(m, content, InMemory) + One(x = m)
                         /\ Times(m, content, InMemory) \in Nat
  <2>1. IsFiniteSet(M) /\ IsFiniteSet(B) /\ \A r \in M \cup B : content'[r] \in Seq(Message)
    BY <1>2, <1>3, <1>4, FS_Singleton
  <2>2. Times(m, content', M \cup B) = Times(m, content', M) + Times(m, content', B)
    BY <1>5, <2>1, TimesOfBoth
  <2>3. Times(m, content', M) = Times(m, content, M)
    <3>1. \A r \in M : content'[r] = content[r]
      BY <1>1, <1>4
    <3> QED BY <3>1, TimesOfSame
  <2>4. Times(m, content', B) = TimesIn(m, content'[b])
    BY <1>3, <1>4, TimesOfOne
  <2>5. TimesIn(m, content'[b]) = One(x = m)
    BY <1>1, <1>6, TimesOfSingle
  <2>6. Times(m, content, M) \in Nat
    <3>1. IsFiniteSet(M) /\ \A r \in M : content[r] \in Seq(Message)
      BY <1>2, <1>4
    <3> QED BY <3>1, PlacesFinite
  <2> QED BY <1>4, <1>5, <2>2, <2>3, <2>4, <2>5, <2>6
<1>8. HeldOf' = [HeldOf EXCEPT ![x] = @ + 1]
  <2>1. \A m \in Payload : HeldOf'[m] = IF m = x THEN HeldOf[m] + 1 ELSE HeldOf[m]
    <3> SUFFICES ASSUME NEW m \in Payload
                 PROVE  HeldOf'[m] = IF m = x THEN HeldOf[m] + 1 ELSE HeldOf[m]
      OBVIOUS
    <3>1. HeldOf'[m] = Times(m, content', InMemory') /\ HeldOf[m] = Times(m, content, InMemory)
      BY DEF HeldOf
    <3>2. HeldOf'[m] = HeldOf[m] + One(x = m) /\ HeldOf[m] \in Nat
      BY <1>7, <3>1
    <3> QED BY <3>2 DEF One
  <2>2. HeldOf' = [m \in Payload |-> HeldOf'[m]] /\ HeldOf = [m \in Payload |-> HeldOf[m]]
    BY DEF HeldOf
  <2> HIDE DEF HeldOf
  <2> QED BY <2>1, <2>2
<1>9. StoredOf' = StoredOf
  BY <1>1 DEF StoredOf
<1> QED BY <1>8, <1>9

\* What a feeder takes for an acknowledgement.
LEMMA SameAcked == ASSUME UNCHANGED next PROVE AckedOf' = AckedOf
BY DEF AckedOf

LEMMA AckedStep ==
    ASSUME TypeInv, PeerStep
    PROVE  \/ AckedOf' = AckedOf
           \/ \E f \in Feeder \ Pipelined :
                 /\ GetReply(f)
                 /\ \A m \in Payload : m = [from |-> f, no |-> next[f]] =>
                        AckedOf' = AckedOf \cup {m}
<1>1. next \in [Feeder -> Nat \ {0}]
  BY DEF TypeInv, LocalInv
<1>2. ASSUME NEW g \in Pipelined, next' = [next EXCEPT ![g] = @ + 1] PROVE AckedOf' = AckedOf
  <2>1. \A m \in Payload : m.from \notin Pipelined => next'[m.from] = next[m.from]
    BY <1>1, <1>2, PayloadFacts
  <2> QED BY <2>1 DEF AckedOf
<1>3. CASE next' = next
  BY <1>3, SameAcked
<1>4. ASSUME NEW f \in Feeder, SendRecord(f) PROVE AckedOf' = AckedOf
  BY <1>2, <1>4, SameAcked DEF SendRecord
<1>5. ASSUME NEW f \in Feeder, GetReply(f), f \notin Pipelined,
             NEW m \in Payload, m = [from |-> f, no |-> next[f]]
      PROVE  AckedOf' = AckedOf \cup {m}
  <2>1. next' = [next EXCEPT ![f] = @ + 1]
    BY <1>5 DEF GetReply
  <2>2. KindOf(m) # "control" /\ m.from = f /\ m.no = next[f]
    <3>1. m.from = f /\ m.no = next[f]
      BY <1>5
    <3> QED BY <1>5, <3>1, PipelinedCommand
  <2>3. ASSUME NEW n \in Payload PROVE n.no < next'[n.from] <=> n.no < next[n.from] \/ n = m
    <3>1. n.from \in Feeder /\ n.no \in Nat /\ n = [from |-> n.from, no |-> n.no]
      BY PayloadFacts
    <3>2. CASE n.from # f
      BY <1>1, <2>1, <2>2, <3>1, <3>2
    <3>3. CASE n.from = f
      <4>1. next'[f] = next[f] + 1 /\ next[f] \in Nat
        BY <1>1, <2>1
      <4>2. n = m <=> n.no = next[f]
        BY <1>5, <2>2, <3>1, <3>3
      <4> QED BY <3>1, <3>3, <4>1, <4>2
    <3> QED BY <3>2, <3>3
  <2> QED BY <1>5, <2>2, <2>3 DEF AckedOf
<1>6. ASSUME NEW f \in Feeder, GetReply(f)
      PROVE  AckedOf' = AckedOf \/ (f \notin Pipelined /\ GetReply(f))
  BY <1>2, <1>6 DEF GetReply
<1>7. ASSUME ~(\E f \in Feeder : SendRecord(f) \/ GetReply(f)) PROVE next' = next
  BY <1>7 DEF PeerStep, Connect, HangUp, ConnectionLost, ClientReads, Elapse, feeders
<1> QED BY <1>3, <1>4, <1>5, <1>6, <1>7

\* Where a message is that archd has accepted.
LEMMA AcceptedTimes ==
    ASSUME OpenInv, TypeInv, LengthInv, OrderInv, NEW m \in Accepted
    PROVE  Times(m, content, InMemory) + Times(m, archived, DOMAIN archived) > 0
<1>1. /\ content \in [Rec -> Seq(Message)] /\ IsFiniteSet(InMemory) /\ InMemory \subseteq Rec
      /\ log_message \in Rec \cup {None}
  BY InMemoryFacts
<1>2. \A r \in InMemory : content[r] \in Seq(Message)
  BY <1>1
<1>3. IsFiniteSet(DOMAIN archived) /\ \A i \in DOMAIN archived : archived[i] \in Seq(Message)
  <2>1. archived \in Seq(Seq(Message))
    BY DEF OrderInv
  <2>2. DOMAIN archived = 1..Len(archived) /\ Len(archived) \in Nat
        /\ \A i \in DOMAIN archived : archived[i] \in Seq(Message)
    BY <2>1, LenProperties, ElementOfSeq
  <2> QED BY <2>2, FS_Interval
<1>4. Times(m, content, InMemory) \in Nat
  BY <1>1, <1>2, PlacesFinite
<1>5. Times(m, archived, DOMAIN archived) \in Nat
  BY <1>3, PlacesFinite
<1>6. CASE m \in MessagesOf(archived)
  <2>1. PICK i \in DOMAIN archived : m \in ToSet(archived[i])
    BY <1>6 DEF MessagesOf
  <2>2. Times(m, archived, DOMAIN archived) > 0
    BY <1>3, <2>1, TimesPositive
  <2> QED BY <1>4, <1>5, <2>2
<1>7. ASSUME NEW r \in InMemory, m \in ToSet(content[r])
      PROVE  Times(m, content, InMemory) + Times(m, archived, DOMAIN archived) > 0
  <2>1. Times(m, content, InMemory) > 0
    BY <1>1, <1>2, <1>7, TimesPositive
  <2> QED BY <1>4, <1>5, <2>1
<1>8. CASE m \in HeldBack
  <2>1. log_message # None /\ m \in ToSet(content[log_message])
    BY <1>8 DEF HeldBack
  <2>2. log_message \in InMemory
    BY <2>1 DEF InMemory
  <2> QED BY <1>7, <2>1, <2>2
<1>9. CASE m \in Queued
  <2>1. PICK r \in ToSet(record_queue.items) : m = content[r][1]
    BY <1>9 DEF Queued
  <2>2. r \in InMemory /\ Len(content[r]) = 1 /\ content[r] \in Seq(Message)
    BY <1>2, <2>1 DEF InMemory, LengthInv
  <2>3. DOMAIN content[r] = 1..1 /\ 1 \in 1..1
    BY <2>2, LenProperties
  <2>4. m \in ToSet(content[r])
    BY <2>1, <2>3 DEF ToSet
  <2> QED BY <1>7, <2>2, <2>4
<1> QED BY <1>6, <1>8, <1>9 DEF Accepted

LEMMA RefinementStep ==
    ASSUME LoopInv, OpenInv, OpenInv', TypeInv, TypeInv', HeldInv, HeldInv', LengthInv, LinkInv,
           OrderInv, FlightInv, CallbackInv, WaitInv, [Next]_vars
    PROVE  [Service!Next]_(Service!service_vars)
<1>1. ASSUME SameRecords, UNCHANGED next PROVE UNCHANGED Service!service_vars
  BY <1>1, SameTimes, SameAcked, Refining
<1>2. CASE ArchiveData \/ CombineLog \/ HoldLog
  <2>1. archived \in Seq(Seq(Message)) /\ UNCHANGED next
    BY <1>2 DEF OrderInv, ArchiveData, CombineLog, HoldLog, feeders
  <2>2. PICK x \in Message : Stores(x) \/ AddsToHeld(x) \/ ReplacesHeld(x)
    BY <1>2, <2>1, ArchiveTurn
  <2>3. ASSUME NEW m \in Payload
        PROVE  HeldOf'[m] + StoredOf'[m] = HeldOf[m] + StoredOf[m] /\ StoredOf'[m] >= StoredOf[m]
    BY <2>1, <2>2, TimesMoved DEF HeldOf, StoredOf
  <2>4. Service!Store
    BY <2>1, <2>3, SameAcked, Refining
  <2> QED BY <2>4 DEF Service!Next
<1>3. ASSUME NEW k \in Conns, ReceiveRecord(k) PROVE [Service!Next]_(Service!service_vars)
  <2>1. UNCHANGED next /\ Receiving(k) /\ Len(Incoming(k)) >= Wanted(k)
    BY <1>3 DEF ReceiveRecord, feeders
  <2>2. PICK x : x = FirstOf(k)
    OBVIOUS
  <2>3. x \in Payload
    BY <2>1, <2>2, FirstIsOldest DEF SentBy
  <2>4. SameRecords \/ Receives(x)
    BY <1>3, <2>2, ReceiveTurn
  <2>5. CASE Receives(x)
    <3>1. Service!Accept
      BY <2>1, <2>3, <2>5, ReceivedTimes, SameAcked, Refining
    <3> QED BY <3>1 DEF Service!Next
  <2> QED BY <1>1, <2>1, <2>4, <2>5
<1>4. CASE Restart
  <2>1. archived' = archived /\ InMemory' = {} /\ next' = next
    <3>1. Forgets /\ ToSet(<<>>) = {}
      BY <1>4, RestartForgets, EmptyQueueFacts DEF EmptyQueue
    <3>2. next' = next
      BY <1>4 DEF Restart, feeders
    <3> QED BY <3>1, <3>2 DEF Forgets, InMemory
  <2>2. HeldOf' = [m \in Payload |-> 0] /\ StoredOf' = StoredOf
    <3>1. \A m : Times(m, content', InMemory') = 0
      BY <2>1, TimesOfNone
    <3> QED BY <2>1, <3>1 DEF HeldOf, StoredOf
  <2>3. Service!Restart
    BY <2>1, <2>2, SameAcked, Refining
  <2> QED BY <2>3 DEF Service!Next
<1>5. CASE PeerStep
  <2>1. SameRecords
    BY <1>5, PeersLeave DEF records, SameRecords
  <2>2. HeldOf' = HeldOf /\ StoredOf' = StoredOf
    BY <2>1, SameTimes
  <2>3. CASE AckedOf' = AckedOf
    BY <2>2, <2>3, Refining
  <2>4. ASSUME NEW f \in Feeder \ Pipelined, GetReply(f),
               \A m \in Payload : m = [from |-> f, no |-> next[f]] => AckedOf' = AckedOf \cup {m}
        PROVE  Service!Next
    <3>1. PICK m : m = [from |-> f, no |-> next[f]]
      OBVIOUS
    <3>2. awaiting[f] /\ inbox[f] > 0 /\ f \notin shut /\ inbox[f] \in Nat
      BY <2>4, BufferAssumption DEF GetReply, TypeInv, NetInv, Peer
    <3>3. inbox[f] # 0 /\ Waits(f)
      BY <3>2 DEF WaitInv
    <3>4. m \in Accepted
      <4>1. Answered(f)
        BY <3>2, <3>3 DEF Waits, OnItsWay
      <4> QED BY <3>1, <4>1 DEF Answered
    <3>5. m \in Payload
      BY <3>4 DEF FlightInv, SentBy
    <3>6. HeldOf[m] + StoredOf[m] > 0
      BY <3>4, <3>5, AcceptedTimes DEF HeldOf, StoredOf
    <3>7. AckedOf' = AckedOf \cup {m}
      BY <2>4, <3>1, <3>5
    <3>8. Service!Acknowledge
      BY <2>2, <3>5, <3>6, <3>7, Refining
    <3> QED BY <3>8 DEF Service!Next
  <2> QED BY <1>5, <2>3, <2>4, AckedStep
<1>6. ASSUME ~(ArchiveData \/ CombineLog \/ HoldLog), ~Restart, ~PeerStep, \A k \in Conns : ~ReceiveRecord(k)
      PROVE  UNCHANGED Service!service_vars
  <2>1. SameRecords
    BY <1>6, OtherTurns, SMTT(30)
  <2>2. CASE CallbackStep
    BY <1>1, <1>6, <2>1, <2>2, ZenonT(30)
       DEF CallbackStep, callback_archive, ArchiveDone, callback_server_connect, callback_client_connect,
           ReceivePiece, SendReply, ReceiveNothing, callback_server_closed, callback_server_can_send,
           add_client_record, RetireOldClient, callback_client_can_send, ClientDrained, feeders
  <2>3. CASE LoopStep \/ SelectReturns \/ Sigterm \/ Killed \/ UNCHANGED vars
    BY <1>1, <2>1, <2>3, LoopLeaves DEF vars, feeders
  <2> QED BY <1>6, <2>2, <2>3 DEF Next, ArchdStep
<1> QED BY <1>2, <1>3, <1>4, <1>5, <1>6

LEMMA InitialService == Init => Service!Init
<1> SUFFICES ASSUME Init PROVE Service!Init
  OBVIOUS
<1>1. /\ archived = <<>> /\ record_queue.items = <<>> /\ log_message = None
      /\ next = [f \in Feeder |-> 1] /\ ToSet(<<>>) = {} /\ DOMAIN <<>> = {}
  BY EmptyQueueFacts DEF Init, EmptyQueue
<1>2. InMemory = {} /\ DOMAIN archived = {}
  BY <1>1 DEF InMemory
<1>3. HeldOf = [m \in Payload |-> 0] /\ StoredOf = [m \in Payload |-> 0]
  BY <1>2, TimesOfNone DEF HeldOf, StoredOf
<1>4. AckedOf = {}
  <2> SUFFICES ASSUME NEW m \in Payload, m.no < next[m.from] PROVE FALSE
    BY DEF AckedOf
  <2>1. m.from \in Feeder /\ m.no \in Nat \ {0}
    BY PayloadFacts
  <2>2. next[m.from] = 1
    BY <1>1, <2>1
  <2>3. ~(m.no < 1)
    BY <2>1
  <2> QED BY <2>2, <2>3
<1> QED BY <1>3, <1>4, Refining

\* For any number of feeders, clients, buffers and restarts archd keeps its promise: each record
\* it accepts it archives once, whatever is combined and held back, a restart loses only what
\* was in memory, and a feeder that waits never takes a record for acknowledged that archd
\* had not accepted.
THEOREM ArchdImplementsTheService == Spec => ArchivesService
<1>1. LoopInv /\ OpenInv /\ OpenInv' /\ TypeInv /\ TypeInv' /\ HeldInv /\ HeldInv' /\ LengthInv
      /\ LinkInv /\ OrderInv /\ FlightInv /\ CallbackInv /\ WaitInv /\ [Next]_vars
      => [Service!Next]_(Service!service_vars)
  BY RefinementStep
<1> QED BY <1>1, InitialService, LoopInvariance, OpenInvariance, TypeInvariance, HeldInvariance,
           LengthInvariance, ReadyInvariance, OrderInvariance, CallbackInvariance, WaitInvariance,
           PTL DEF Spec, ArchivesService, Service!Spec
==============================================================================
