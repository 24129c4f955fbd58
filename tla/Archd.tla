-------------------------------- MODULE Archd --------------------------------
(***************************************************************************)
(* archd/archd.c: the archive daemon.  Feeders (q330serv, shake, falcon,   *)
(* log330: archd calls them servers) send it SEED records over TCP; it     *)
(* acknowledges each with one byte, archives it, and relays it to          *)
(* telemetry clients.  Everything runs in callbacks of pcomm's select loop *)
(* (Pcomm), one action here per turn of a callback's loop.                 *)
(*                                                                         *)
(* The environment is part of the model: feeders that wait for the reply   *)
(* and retry (q330serv/logclient.c) or do not wait (archd/logclient.c),    *)
(* clients that read at their own pace, socket buffers of limited room,    *)
(* SIGTERM, a process that is killed and started again.                    *)
(***************************************************************************)
EXTENDS FiniteSets, SequencesExt, FifoQueue

CONSTANTS
    Feeder,        \* the programs that send records
    Pipelined,     \* those of them that do not wait for the reply
    Client,        \* the telemetry clients
    Script,        \* what each feeder sends: a sequence of "data", "log", "control"
    Prefix,        \* the letters of a feeder's LOG channel that CombineSeed compares
    ServerSocket,  \* archd->server_socket, where feeders connect
    ClientSocket,  \* archd->client_socket, where clients connect
    Conns,         \* the descriptors accept can return
    NoFd,          \* no callback runs
    None,          \* a null pointer, an unused descriptor
    Rec,           \* record buffers
    Depth,         \* archd->telemetry_depth
    RecordUnits,   \* a record in units of the smallest piece the network splits
    SendRoom,      \* a socket's send buffer, in the same units
    MaxServers,    \* MAX_SERVERS
    MaxClients,    \* MAX_CLIENTS
    CombineMax,    \* LOG messages that fit in one record
    MaxFaults,     \* bound on kills, signals and feeders hanging up
    MaxVisits      \* bound on connections made by clients

Peer == Feeder \cup Client
Message == [from : Feeder, no : Nat \ {0}]
KindOf(m) == Script[m.from][m.no]
ListenFds == {ServerSocket, ClientSocket}
AllFds == ListenFds \cup Conns

ASSUME PeerAssumption == Feeder \cap Client = {} /\ Pipelined \subseteq Feeder /\ None \notin Peer
\* The commands come from programs that do not wait (q330SeedSend is given records only).
ASSUME ScriptAssumption ==
    /\ Script \in [Feeder -> Seq({"data", "log", "control"})]
    /\ \A f \in Feeder \ Pipelined : "control" \notin ToSet(Script[f])
ASSUME FdAssumption ==
    /\ Conns \subseteq Nat /\ IsFiniteSet(Conns)
    /\ ServerSocket \notin Conns /\ ClientSocket \notin Conns /\ ServerSocket # ClientSocket
    /\ NoFd \notin AllFds
ASSUME BufferAssumption ==
    /\ Rec \subseteq Nat /\ None \notin Rec
    /\ Depth \in Nat /\ RecordUnits \in Nat \ {0} /\ SendRoom \in Nat \ {0}
ASSUME BoundAssumption ==
    /\ {MaxServers, MaxClients, MaxFaults, MaxVisits} \subseteq Nat
    /\ CombineMax \in Nat \ {0}

VARIABLES
    \* pcomm's context, and where its loop is
    fds, selected, null_sets, todo, running, phase, exit_request, exit_now,
    \* the network
    sock,    \* the peer behind each connection descriptor of archd
    link,    \* each peer's connection: "away", "queued" for accept, or "open"
    shut,    \* peers that have closed their end
    wire,    \* what each feeder has sent and archd has not received, in units
    inbox,   \* units each peer has not read of what archd sent it
    \* archd's contexts
    server_map, server,  \* connected feeders: receive buffer and reply_queue
    client_map, client,  \* connected clients: telemetry_queue, partial, offset, age
    \* archd's records
    content,          \* the messages in each record buffer; <<>> is a free buffer
    refs,             \* ref_count
    record_queue,     \* received and not archived
    telemetry_queue,  \* the records a new client starts with
    log_message,      \* the LOG record held back to combine others into
    archived,         \* what ArchiveSeed has been given, over all runs of archd
    \* locals of the running callback
    fan,    \* map_enum: clients still to visit
    okay,   \* callback_server_can_recv: result = RESULT_CHAN_CMD_OKAY
    reply,  \* callback_server_can_recv: units of the reply to the record at hand, or 0
    \* the feeders
    next,      \* the message each feeder is at
    awaiting,  \* whether it waits for the reply
    \* bounds
    faults, visits

pcomm_vars == <<fds, selected, null_sets, todo, running, phase, exit_request, exit_now>>
net == <<sock, link, shut, wire, inbox>>
contexts == <<server_map, server, client_map, client>>
records == <<content, refs, record_queue, telemetry_queue, log_message, archived>>
locals == <<fan, okay, reply>>
feeders == <<next, awaiting>>
bounds == <<faults, visits>>
vars == <<pcomm_vars, net, contexts, records, locals, feeders, bounds>>

Pcomm == INSTANCE Pcomm
            WITH Fd <- AllFds, Used <- {"write", "read"},
                 Listeners <- <<ServerSocket, ClientSocket>>,
                 MaxWatched <- Cardinality(AllFds) + 1

FreshServer == [buffer |-> <<>>, replies |-> EmptyQueue]
FreshClient == [queue |-> EmptyQueue, partial |-> None, offset |-> 0, age |-> 0]

-----------------------------------------------------------------------------
(* Sockets.                                                                *)

Room(p) == SendRoom - inbox[p]

\* send(MSG_DONTWAIT) of n units to p: how many units it takes, -1 when it takes none.
\* What is sent to a peer that has gone disappears.
Sent(p, n) ==
    IF p \in shut THEN n
    ELSE IF Room(p) = 0 THEN -1
    ELSE IF Room(p) < n THEN Room(p) ELSE n
InboxAfter(p, n) ==
    IF p \in shut \/ Sent(p, n) < 0 THEN inbox ELSE [inbox EXCEPT ![p] = @ + Sent(p, n)]

\* bytes_sent < length compares a signed with an unsigned number: -1 is not less.
SentShort(p, n) == Sent(p, n) >= 0 /\ Sent(p, n) < n

\* accept returns the lowest unused descriptor.
Unused == {k \in Conns : sock[k] = None}

\* archd closes its end of k.
Closed(k) ==
    /\ sock' = [sock EXCEPT ![k] = None]
    /\ link' = [link EXCEPT ![sock[k]] = "away"]
    /\ shut' = shut \ {sock[k]}
    /\ inbox' = [inbox EXCEPT ![sock[k]] = 0]

-----------------------------------------------------------------------------
(* Record buffers: record_duplicate and record_deallocate.                 *)

Hold(rc, r) == [rc EXCEPT ![r] = @ + 1]
Release(rc, gone) == [r \in Rec |-> IF r \in gone /\ rc[r] > 0 THEN rc[r] - 1 ELSE rc[r]]

\* The buffers whose last reference is gone are free.
Freed(c, rc) == [r \in Rec |-> IF refs[r] > 0 /\ rc[r] = 0 THEN <<>> ELSE c[r]]

\* The counts after prioqueue_add(q, r).
RefsAfterPut(rc, q, cap, r) == Hold(Release(rc, Evicted(q, cap)), r)

FreeRecs == {r \in Rec : content[r] = <<>> /\ refs[r] = 0}

-----------------------------------------------------------------------------
(* Feeders (servers, in archd's terms).                                    *)

\* A slip a maintainer could make here, for the mutation checks.
ConnectUnmonitored ==
    /\ phase = "read" /\ running = ServerSocket
    /\ \E p \in {f \in Feeder : link[f] = "queued"} :
          LET k == Min(Unused)
          IN  /\ sock' = [sock EXCEPT ![k] = p]
              /\ link' = [link EXCEPT ![p] = "open"]
              /\ server' = [server EXCEPT ![k] = FreshServer]
              /\ Pcomm!CallbackRuns /\ server_map' = server_map \cup {k}
              /\ UNCHANGED <<shut, wire, inbox>>
    /\ Pcomm!Return
    /\ UNCHANGED <<client_map, client, records, locals, feeders, bounds>>

\* callback_server_connect: accept, monitor for reading, enter the map.  accept fails when
\* no descriptor is left.  During an exit pcomm refuses and the accepted connection is
\* left as it is.
callback_server_connect ==
    /\ phase = "read" /\ running = ServerSocket
    /\ IF Cardinality(server_map) >= MaxServers \/ Unused = {}
       THEN /\ Pcomm!CallbackRuns
            /\ UNCHANGED <<net, server_map, server>>
       ELSE \E p \in {f \in Feeder : link[f] = "queued"} :
              LET k == Min(Unused)
              IN  /\ sock' = [sock EXCEPT ![k] = p]
                  /\ link' = [link EXCEPT ![p] = "open"]
                  /\ server' = [server EXCEPT ![k] = FreshServer]
                  /\ IF exit_request
                     THEN Pcomm!CallbackRuns /\ server_map' = server_map
                     ELSE Pcomm!CallbackMonitors("read", k) /\ server_map' = server_map \cup {k}
                  /\ UNCHANGED <<shut, wire, inbox>>
    /\ Pcomm!Return
    /\ UNCHANGED <<client_map, client, records, locals, feeders, bounds>>

\* A slip a maintainer could make here, for the mutation checks.
QueueUncounted(m, r) ==
    /\ record_queue' = Put(record_queue, -1, r)
    /\ refs' = Hold(Release(refs, Evicted(telemetry_queue, Depth)), r)
    /\ telemetry_queue' = Put(telemetry_queue, Depth, r)
    /\ content' = Freed([content EXCEPT ![r] = <<m>>], refs')

\* A new record for message m enters the record queue and, with telemetry on, archd's
\* telemetry queue.
QueueRecord(m, r) ==
    /\ record_queue' = Put(record_queue, -1, r)
    /\ IF Depth = 0
       THEN /\ refs' = Hold(refs, r)
            /\ telemetry_queue' = telemetry_queue
       ELSE /\ refs' = RefsAfterPut(Hold(refs, r), telemetry_queue, Depth, r)
            /\ telemetry_queue' = Put(telemetry_queue, Depth, r)
    /\ content' = Freed([content EXCEPT ![r] = <<m>>], refs')

Receiving(k) == phase = "read" /\ running = k /\ k \in server_map
Wanted(k) == RecordUnits - Len(server[k].buffer)
Incoming(k) == wire[sock[k]]

\* A piece of a record is on the socket: it is buffered and the callback breaks off.
ReceivePiece(k) ==
    /\ Receiving(k) /\ reply = 0
    /\ Incoming(k) # <<>>
    /\ Len(Incoming(k)) < Wanted(k)
    /\ server' = [server EXCEPT ![k].buffer = @ \o Incoming(k)]
    /\ wire' = [wire EXCEPT ![sock[k]] = <<>>]
    /\ okay' = FALSE
    /\ IF server[k].replies.items # <<>> THEN Pcomm!CallbackMonitors("write", k)
       ELSE Pcomm!CallbackRuns
    /\ Pcomm!Return
    /\ UNCHANGED <<sock, link, shut, inbox, server_map, client_map, client, records,
                   fan, reply, feeders, bounds>>

\* The rest of a record is on the socket.  A channel control command that succeeds makes
\* result RESULT_CHAN_CMD_OKAY for the rest of this callback; with any other result the
\* message is queued like data.  The reply is one unit for a record, two for a command.
ReceiveRecord(k) ==
    /\ Receiving(k) /\ reply = 0
    /\ Len(Incoming(k)) >= Wanted(k)
    /\ LET whole == server[k].buffer \o SubSeq(Incoming(k), 1, Wanted(k))
           m == whole[1]
       IN  \E done \in IF KindOf(m) = "control" THEN BOOLEAN ELSE {okay} :
             /\ okay' = done
             /\ IF done
                THEN /\ reply' = 2
                     /\ fan' = {}
                     /\ UNCHANGED <<content, refs, record_queue, telemetry_queue>>
                ELSE /\ reply' = 1
                     /\ fan' = IF Depth = 0 THEN {} ELSE client_map
                     /\ FreeRecs # {}
                     /\ QueueRecord(m, Min(FreeRecs))
    /\ server' = [server EXCEPT ![k].buffer = <<>>]
    /\ wire' = [wire EXCEPT ![sock[k]] = SubSeq(@, Wanted(k) + 1, Len(@))]
    /\ Pcomm!CallbackRuns /\ Pcomm!Continue
    /\ UNCHANGED <<sock, link, shut, inbox, server_map, client_map, client, log_message,
                   archived, feeders, bounds>>

\* The reply goes out at once, or waits in the reply queue when only a part of it could.
SendReply(k) ==
    /\ Receiving(k) /\ reply > 0 /\ fan = {}
    /\ reply' = 0
    /\ inbox' = InboxAfter(sock[k], reply)
    /\ server' = IF SentShort(sock[k], reply)
                 THEN [server EXCEPT ![k].replies = Put(@, -1, reply)] ELSE server
    /\ Pcomm!CallbackRuns /\ Pcomm!Continue
    /\ UNCHANGED <<sock, link, shut, wire, server_map, client_map, client, records, fan, okay,
                   feeders, bounds>>

\* Nothing is left to receive (EAGAIN): replies that wait need the write callback.
ReceiveNothing(k) ==
    /\ Receiving(k) /\ reply = 0
    /\ Incoming(k) = <<>> /\ sock[k] \notin shut
    /\ IF server[k].replies.items # <<>> THEN Pcomm!CallbackMonitors("write", k)
       ELSE Pcomm!CallbackRuns
    /\ Pcomm!Return
    /\ okay' = FALSE
    /\ UNCHANGED <<net, contexts, records, fan, reply, feeders, bounds>>

\* A slip a maintainer could make here, for the mutation checks.
ServerClosedStillMonitored(k) ==
    /\ Receiving(k) /\ reply = 0
    /\ Incoming(k) = <<>> /\ sock[k] \in shut
    /\ Pcomm!CallbackRemoves("write", k)
    /\ Pcomm!Return
    /\ Closed(k)
    /\ server_map' = server_map \ {k}
    /\ server' = [server EXCEPT ![k] = FreshServer]
    /\ okay' = FALSE
    /\ UNCHANGED <<wire, client_map, client, records, fan, reply, feeders, bounds>>

\* callback_server_closed: the end of the stream; a piece of a record and the replies go.
callback_server_closed(k) ==
    /\ Receiving(k) /\ reply = 0
    /\ Incoming(k) = <<>> /\ sock[k] \in shut
    /\ Pcomm!CallbackCloses(k)
    /\ Pcomm!Return
    /\ Closed(k)
    /\ server_map' = server_map \ {k}
    /\ server' = [server EXCEPT ![k] = FreshServer]
    /\ okay' = FALSE
    /\ UNCHANGED <<wire, client_map, client, records, fan, reply, feeders, bounds>>

\* callback_server_can_send, one reply at a time; a reply is resent from its start.
callback_server_can_send(k) ==
    /\ phase = "write" /\ running = k /\ k \in server_map
    /\ LET waiting == server[k].replies
       IN  IF waiting.items = <<>>
           THEN /\ Pcomm!CallbackRemoves("write", k) /\ Pcomm!Return
                /\ UNCHANGED <<inbox, server>>
           ELSE /\ inbox' = InboxAfter(sock[k], Head(waiting.items))
                /\ Pcomm!CallbackRuns
                /\ IF SentShort(sock[k], Head(waiting.items))
                   THEN Pcomm!Return /\ server' = server
                   ELSE /\ Pcomm!Continue
                        /\ server' = [server EXCEPT ![k].replies = Taken(@)]
    /\ UNCHANGED <<sock, link, shut, wire, server_map, client_map, client, records, locals,
                   feeders, bounds>>

-----------------------------------------------------------------------------
(* Archiving: callback_archive, before every select and after a timeout.   *)

Archiving == phase = "prepare" \/ (phase = "timeout" /\ fan = {})

IsLog(r) == KindOf(content[r][1]) = "log"

\* A slip a maintainer could make here, for the mutation checks.
CombinesAnyLength(r) ==
    /\ log_message # None
    /\ Prefix[content[log_message][1].from] = Prefix[content[r][1].from]

\* CombineSeed's tests: the letters it compares agree and the message fits.
Combines(r) ==
    /\ log_message # None
    /\ Prefix[content[log_message][1].from] = Prefix[content[r][1].from]
    /\ Len(content[log_message]) < CombineMax

\* A slip a maintainer could make here, for the mutation checks.
ArchiveNewest ==
    /\ Archiving
    /\ record_queue.items # <<>>
    /\ LET r == Last(record_queue.items)
       IN  /\ ~IsLog(r)
           /\ archived' = Append(archived, content[r])
           /\ refs' = Release(refs, {r})
           /\ content' = Freed(content, refs')
    /\ record_queue' = EvictNewest(record_queue)
    /\ Pcomm!CallbackRuns /\ Pcomm!Continue
    /\ UNCHANGED <<net, contexts, telemetry_queue, log_message, locals, feeders, bounds>>

\* A record that is not a LOG record is archived at once.
ArchiveData ==
    /\ Archiving
    /\ record_queue.items # <<>>
    /\ LET r == Head(record_queue.items)
       IN  /\ ~IsLog(r)
           /\ archived' = Append(archived, content[r])
           /\ refs' = Release(refs, {r})
           /\ content' = Freed(content, refs')
    /\ record_queue' = Taken(record_queue)
    /\ Pcomm!CallbackRuns /\ Pcomm!Continue
    /\ UNCHANGED <<net, contexts, telemetry_queue, log_message, locals, feeders, bounds>>

\* A LOG record that combines with the one held back is appended to it, in place;
\* CombinedOver writes over it, for the mutation checks.
CombinedOver(r) == [content EXCEPT ![log_message] = content[r]]
Combined(r) == [content EXCEPT ![log_message] = @ \o content[r]]
CombineLog ==
    /\ Archiving
    /\ record_queue.items # <<>>
    /\ LET r == Head(record_queue.items)
       IN  /\ IsLog(r)
           /\ Combines(r)
           /\ refs' = Release(refs, {r})
           /\ content' = Freed(Combined(r), refs')
    /\ record_queue' = Taken(record_queue)
    /\ Pcomm!CallbackRuns /\ Pcomm!Continue
    /\ UNCHANGED <<net, contexts, telemetry_queue, log_message, archived, locals, feeders, bounds>>

\* Any other LOG record takes the place of the one held back, which is archived.  The new
\* one follows at once if its time of receipt is BUFFER_TIME_SEC ago (a stalled loop) or
\* lies in the future (a clock set back).
HoldLog ==
    /\ Archiving
    /\ record_queue.items # <<>>
    /\ LET r == Head(record_queue.items)
           before == IF log_message = None THEN <<>> ELSE <<content[log_message]>>
       IN  /\ IsLog(r)
           /\ ~Combines(r)
           /\ \E late \in BOOLEAN :
                /\ archived' = archived \o before \o (IF late THEN <<content[r]>> ELSE <<>>)
                /\ log_message' = IF late THEN None ELSE r
                /\ refs' = Release(refs, {log_message} \cup (IF late THEN {r} ELSE {}))
           /\ content' = Freed(content, refs')
    /\ record_queue' = Taken(record_queue)
    /\ Pcomm!CallbackRuns /\ Pcomm!Continue
    /\ UNCHANGED <<net, contexts, telemetry_queue, locals, feeders, bounds>>

\* A slip a maintainer could make here, for the mutation checks.
ArchiveDoneEarly ==
    /\ Archiving
    /\ Pcomm!CallbackRuns
    /\ Pcomm!Return
    /\ UNCHANGED <<net, contexts, records, locals, feeders, bounds>>

\* prioqueue_pop_high has nothing more.
ArchiveDone ==
    /\ Archiving
    /\ record_queue.items = <<>>
    /\ Pcomm!CallbackRuns
    /\ Pcomm!Return
    /\ UNCHANGED <<net, contexts, records, locals, feeders, bounds>>

callback_archive == ArchiveData \/ CombineLog \/ HoldLog \/ ArchiveDone

-----------------------------------------------------------------------------
(* Telemetry clients.                                                      *)

Reversed(q) == [items |-> Reverse(q.items), size |-> Len(q.items)]
RefsAfterClone == [r \in Rec |-> refs[r] + (IF r \in ToSet(telemetry_queue.items) THEN 1 ELSE 0)]

\* callback_client_connect: the client's queue is a clone of archd's, which comes out in
\* the opposite order (PrioQueue), then accept, monitor for writing, enter the map.  A
\* failed accept leaves the clone's references behind.
callback_client_connect ==
    /\ phase = "read" /\ running = ClientSocket
    /\ IF Cardinality(client_map) >= MaxClients
       THEN /\ Pcomm!CallbackRuns
            /\ UNCHANGED <<net, client_map, client, refs>>
       ELSE IF Unused = {}
       THEN /\ Pcomm!CallbackRuns
            /\ refs' = RefsAfterClone
            /\ UNCHANGED <<net, client_map, client>>
       ELSE \E p \in {c \in Client : link[c] = "queued"} :
              LET k == Min(Unused)
              IN  /\ sock' = [sock EXCEPT ![k] = p]
                  /\ link' = [link EXCEPT ![p] = "open"]
                  /\ client' = [client EXCEPT ![k] =
                                  [FreshClient EXCEPT !.queue = Reversed(telemetry_queue)]]
                  /\ refs' = RefsAfterClone
                  /\ IF exit_request
                     THEN Pcomm!CallbackRuns /\ client_map' = client_map
                     ELSE Pcomm!CallbackMonitors("write", k) /\ client_map' = client_map \cup {k}
                  /\ UNCHANGED <<shut, wire, inbox>>
    /\ Pcomm!Return
    /\ UNCHANGED <<server_map, server, content, record_queue, telemetry_queue, log_message,
                   archived, locals, feeders, bounds>>

\* retire_old_client: last_write is CLIENT_EMPTY_TIMEOUT ago, CLIENT_PARTIAL_TIMEOUT and
\* the queue is not empty, or CLIENT_FULL_TIMEOUT and it is full (age 3, 2 and 1).
Expired(c) ==
    \/ c.age >= 3
    \/ c.age >= 2 /\ ~IsEmpty(c.queue)
    \/ c.age >= 1 /\ IsFull(c.queue, Depth)

\* callback_client_closed releases what is queued, though not a partial record.
ClientClosed(k, rc, queue) ==
    /\ Pcomm!CallbackRemoves("write", k)
    /\ Closed(k)
    /\ client_map' = client_map \ {k}
    /\ client' = [client EXCEPT ![k] = FreshClient]
    /\ refs' = Release(rc, ToSet(queue.items))

\* A slip a maintainer could make here, for the mutation checks.
AddUnmonitored(k) ==
    LET r == Last(record_queue.items)
        queue == Put(client[k].queue, Depth, r)
        rc == RefsAfterPut(refs, client[k].queue, Depth, r)
    IN  /\ Receiving(running) /\ k \in fan
        /\ fan' = fan \ {k}
        /\ Pcomm!CallbackRuns /\ refs' = rc
        /\ client' = [client EXCEPT ![k].queue = queue]
        /\ content' = Freed(content, refs')
        /\ Pcomm!Continue
        /\ UNCHANGED <<net, client_map, wire, server_map, server, record_queue,
                       telemetry_queue, log_message, archived, okay, reply, feeders, bounds>>

\* add_client_record for client k and the record received last: queue it, monitor the
\* client for writing, and retire it if it has expired.
add_client_record(k) ==
    LET r == Last(record_queue.items)
        queue == Put(client[k].queue, Depth, r)
        rc == RefsAfterPut(refs, client[k].queue, Depth, r)
    IN  /\ Receiving(running) /\ k \in fan
        /\ fan' = fan \ {k}
        /\ IF Expired([client[k] EXCEPT !.queue = queue])
           THEN ClientClosed(k, rc, queue)
           ELSE /\ Pcomm!CallbackMonitors("write", k)
                /\ client' = [client EXCEPT ![k].queue = queue]
                /\ refs' = rc
                /\ UNCHANGED <<sock, link, shut, inbox, client_map>>
        /\ content' = Freed(content, refs')
        /\ Pcomm!Continue
        /\ UNCHANGED <<wire, server_map, server, record_queue, telemetry_queue,
                       log_message, archived, okay, reply, feeders, bounds>>

\* callback_async_timeout: retire_old_client for each client, before it archives.
RetireOldClient(k) ==
    /\ phase = "timeout" /\ k \in fan
    /\ fan' = fan \ {k}
    /\ IF Expired(client[k])
       THEN ClientClosed(k, refs, client[k].queue)
       ELSE Pcomm!CallbackRuns /\ UNCHANGED <<sock, link, shut, inbox, client_map, client, refs>>
    /\ content' = Freed(content, refs')
    /\ Pcomm!Continue
    /\ UNCHANGED <<wire, server_map, server, record_queue, telemetry_queue,
                   log_message, archived, okay, reply, feeders, bounds>>

\* The record callback_client_can_send is at, and how much of it is left.  LeftWhole and
\* WithoutCurrentKept are slips a maintainer could make, for the mutation checks.
Current(c) == IF c.partial # None THEN c.partial ELSE Head(c.queue.items)
LeftWhole(c) == RecordUnits
Left(c) == RecordUnits - (IF c.partial # None THEN c.offset ELSE 0)
NothingToSend(c) == c.partial = None /\ c.queue.items = <<>>
WithoutCurrentKept(c) == [queue |-> c.queue, partial |-> None, offset |-> 0, age |-> 0]
WithoutCurrent(c) ==
    [queue |-> IF c.partial # None THEN c.queue ELSE Taken(c.queue),
     partial |-> None, offset |-> 0, age |-> 0]

\* callback_client_can_send, one record at a time: a record sent short is kept as the
\* partial one; any other is released, and so is one for which send returned -1.
callback_client_can_send(k) ==
    /\ phase = "write" /\ running = k /\ k \in client_map
    /\ ~NothingToSend(client[k])
    /\ LET c == client[k]
           p == sock[k]
           r == Current(c)
       IN  /\ inbox' = InboxAfter(p, Left(c))
           /\ Pcomm!CallbackRuns
           /\ IF SentShort(p, Left(c))
              THEN /\ client' = [client EXCEPT ![k] =
                                   [WithoutCurrent(c) EXCEPT
                                      !.partial = r,
                                      !.offset = RecordUnits - Left(c) + Sent(p, Left(c))]]
                   /\ UNCHANGED <<content, refs>>
                   /\ Pcomm!Return
              ELSE /\ client' = [client EXCEPT ![k] = WithoutCurrent(c)]
                   /\ refs' = Release(refs, {r})
                   /\ content' = Freed(content, refs')
                   /\ Pcomm!Continue
    /\ UNCHANGED <<sock, link, shut, wire, server_map, server, client_map, record_queue,
                   telemetry_queue, log_message, archived, locals, feeders, bounds>>

\* With nothing left to send the descriptor is no longer monitored.
ClientDrained(k) ==
    /\ phase = "write" /\ running = k /\ k \in client_map
    /\ NothingToSend(client[k])
    /\ Pcomm!CallbackRemoves("write", k)
    /\ Pcomm!Return
    /\ UNCHANGED <<net, contexts, records, locals, feeders, bounds>>

-----------------------------------------------------------------------------
(* The loop, driven by what the sockets have.                              *)

\* What select reports: a listener with a connection to accept, a feeder that sent
\* something or hung up, a peer with room for more or gone.
IsReady(s, k) ==
    CASE s = "read" /\ k = ServerSocket -> \E f \in Feeder : link[f] = "queued"
      [] s = "read" /\ k = ClientSocket -> \E c \in Client : link[c] = "queued"
      [] s = "read" /\ k \in Conns -> wire[sock[k]] # <<>> \/ sock[k] \in shut
      [] s = "write" /\ k \in Conns -> Room(sock[k]) > 0 \/ sock[k] \in shut
      [] OTHER -> FALSE
ReadyNow == [s \in Pcomm!Stream |-> {k \in selected[s] : IsReady(s, k)}]

outside_pcomm == <<net, contexts, records, feeders, bounds>>

SelectReturns ==
    /\ phase = "select"
    /\ IF ReadyNow # Pcomm!NoSets
       THEN selected' = ReadyNow /\ Pcomm!SelectReady /\ UNCHANGED locals
       ELSE Pcomm!SelectTimeout /\ fan' = client_map /\ UNCHANGED <<okay, reply>>
    /\ UNCHANGED outside_pcomm

LoopStep ==
    /\ \/ Pcomm!LoopTop
       \/ Pcomm!Populate
       \/ Pcomm!StartCallback
       \/ Pcomm!ReadNullSet
       \/ Pcomm!EndPass
    /\ UNCHANGED <<outside_pcomm, locals>>

CallbackStep ==
    \/ callback_archive
    \/ callback_server_connect
    \/ callback_client_connect
    \/ \E k \in Conns :
        \/ ReceivePiece(k)
        \/ ReceiveRecord(k)
        \/ SendReply(k)
        \/ ReceiveNothing(k)
        \/ callback_server_closed(k)
        \/ callback_server_can_send(k)
        \/ add_client_record(k)
        \/ RetireOldClient(k)
        \/ callback_client_can_send(k)
        \/ ClientDrained(k)

\* sigterm_archd: an orderly exit is requested, at any point of the program.
Sigterm ==
    /\ faults < MaxFaults
    /\ faults' = faults + 1
    /\ Pcomm!Signal
    /\ UNCHANGED <<net, contexts, records, locals, feeders, visits>>

Killed ==
    /\ faults < MaxFaults
    /\ faults' = faults + 1
    /\ Pcomm!Kill
    /\ UNCHANGED <<net, contexts, records, locals, feeders, visits>>

\* main: every structure is new; the archive is what it was.
Restart ==
    /\ Pcomm!Start
    /\ \A p \in Peer : link[p] = "away"
    /\ sock' = [k \in Conns |-> None]
    /\ UNCHANGED <<link, shut, wire, inbox>>
    /\ server_map' = {} /\ client_map' = {}
    /\ server' = [k \in Conns |-> FreshServer]
    /\ client' = [k \in Conns |-> FreshClient]
    /\ content' = [r \in Rec |-> <<>>] /\ refs' = [r \in Rec |-> 0]
    /\ record_queue' = EmptyQueue /\ telemetry_queue' = EmptyQueue
    /\ log_message' = None /\ archived' = archived
    /\ fan' = {} /\ okay' = FALSE /\ reply' = 0
    /\ UNCHANGED <<feeders, bounds>>

-----------------------------------------------------------------------------
(* The peers.  What they do between two system calls of archd cannot be told from what *)
(* they do just before the second one, so they act where archd looks at its sockets.   *)

PeersTurn == phase \in {"select"} \cup Pcomm!Ended \/ running # NoFd

Listening == phase \notin Pcomm!Ended

HasMore(f) == next[f] <= Len(Script[f])

Connect(p) ==
    /\ PeersTurn /\ Listening
    /\ link[p] = "away"
    /\ IF p \in Client THEN visits < MaxVisits /\ visits' = visits + 1
       ELSE HasMore(p) /\ visits' = visits
    /\ link' = [link EXCEPT ![p] = "queued"]
    /\ UNCHANGED <<pcomm_vars, sock, shut, wire, inbox, contexts, records, locals, feeders, faults>>

\* q330SeedSend writes a whole record; only a feeder that does not wait for the reply
\* writes the next one before the last was read.
SendRecord(f) ==
    /\ PeersTurn
    /\ link[f] # "away" /\ f \notin shut
    /\ HasMore(f)
    /\ ~awaiting[f]
    /\ wire' = [wire EXCEPT ![f] = @ \o [i \in 1..RecordUnits |-> [from |-> f, no |-> next[f]]]]
    /\ IF f \in Pipelined
       THEN next' = [next EXCEPT ![f] = @ + 1] /\ awaiting' = awaiting
       ELSE next' = next /\ awaiting' = [awaiting EXCEPT ![f] = TRUE]
    /\ UNCHANGED <<pcomm_vars, sock, link, shut, inbox, contexts, records, locals, bounds>>

\* The byte q330SeedSend waits for.
GetReply(f) ==
    /\ PeersTurn
    /\ awaiting[f] /\ inbox[f] > 0 /\ f \notin shut
    /\ inbox' = [inbox EXCEPT ![f] = @ - 1]
    /\ awaiting' = [awaiting EXCEPT ![f] = FALSE]
    /\ next' = [next EXCEPT ![f] = @ + 1]
    /\ UNCHANGED <<pcomm_vars, sock, link, shut, wire, contexts, records, locals, bounds>>

\* A client reads, at its own pace.
ClientReads(c) ==
    /\ PeersTurn
    /\ inbox[c] > 0 /\ c \notin shut
    /\ inbox' = [inbox EXCEPT ![c] = @ - 1]
    /\ UNCHANGED <<pcomm_vars, sock, link, shut, wire, contexts, records, locals, feeders, bounds>>

\* A peer closes its end; a feeder may be cut off inside a record.
HangUp(p) ==
    /\ PeersTurn
    /\ link[p] # "away" /\ p \notin shut
    /\ shut' = shut \cup {p}
    /\ IF p \in Feeder
       THEN /\ faults < MaxFaults /\ faults' = faults + 1
            /\ awaiting' = [awaiting EXCEPT ![p] = FALSE]
            /\ wire' \in {wire, [wire EXCEPT ![p] = IF @ = <<>> THEN @ ELSE Front(@)]}
       ELSE UNCHANGED <<faults, awaiting, wire>>
    /\ UNCHANGED <<pcomm_vars, sock, link, inbox, contexts, records, locals, next, visits>>

\* archd is gone: its peers see their connections end, and a feeder that waits for a
\* reply goes back to sending the record.
ConnectionLost(p) ==
    /\ ~Listening
    /\ link[p] # "away"
    /\ link' = [link EXCEPT ![p] = "away"]
    /\ shut' = shut \ {p}
    /\ inbox' = [inbox EXCEPT ![p] = 0]
    /\ IF p \in Feeder
       THEN wire' = [wire EXCEPT ![p] = <<>>] /\ awaiting' = [awaiting EXCEPT ![p] = FALSE]
       ELSE UNCHANGED <<wire, awaiting>>
    /\ UNCHANGED <<pcomm_vars, sock, contexts, records, locals, next, bounds>>

\* Time passes without a write to client k: 15, 60 and 300 seconds.
Elapse(k) ==
    /\ phase = "select"
    /\ k \in client_map
    /\ client[k].age < 3
    /\ client' = [client EXCEPT ![k].age = @ + 1]
    /\ UNCHANGED <<pcomm_vars, net, server_map, server, client_map, records, locals, feeders, bounds>>

PeerStep ==
    \/ \E p \in Peer : Connect(p) \/ HangUp(p) \/ ConnectionLost(p)
    \/ \E f \in Feeder : SendRecord(f) \/ GetReply(f)
    \/ \E c \in Client : ClientReads(c)
    \/ \E k \in Conns : Elapse(k)

-----------------------------------------------------------------------------
Init ==
    /\ Pcomm!Init
    /\ sock = [k \in Conns |-> None]
    /\ link = [p \in Peer |-> "away"]
    /\ shut = {}
    /\ wire = [f \in Feeder |-> <<>>]
    /\ inbox = [p \in Peer |-> 0]
    /\ server_map = {} /\ server = [k \in Conns |-> FreshServer]
    /\ client_map = {} /\ client = [k \in Conns |-> FreshClient]
    /\ content = [r \in Rec |-> <<>>] /\ refs = [r \in Rec |-> 0]
    /\ record_queue = EmptyQueue /\ telemetry_queue = EmptyQueue
    /\ log_message = None
    /\ archived = <<>>
    /\ fan = {} /\ okay = FALSE /\ reply = 0
    /\ next = [f \in Feeder |-> 1]
    /\ awaiting = [f \in Feeder |-> FALSE]
    /\ faults = 0 /\ visits = 0

\* One step of the single thread of archd.
ArchdStep == LoopStep \/ SelectReturns \/ CallbackStep

Next == ArchdStep \/ PeerStep \/ Sigterm \/ Killed \/ Restart

Spec == Init /\ [][Next]_vars

\* archd runs while it can and is started again by its init script; a feeder that waits
\* reads the reply when it comes and sees a lost connection.  Feeders are processes of
\* their own: strong fairness stands for weak fairness without PeersTurn.
Fairness ==
    /\ WF_vars(ArchdStep)
    /\ WF_vars(Restart)
    /\ \A f \in Feeder : SF_vars(GetReply(f))
    /\ \A p \in Peer : WF_vars(ConnectionLost(p))

FairSpec == Spec /\ Fairness

-----------------------------------------------------------------------------
(* Properties.                                                             *)

\* Types, and the two bounds archd keeps with C arithmetic rather than a container: a
\* combined LOG fits in its record, and the offset of a partial record lies inside it.
TypeOK ==
    /\ Pcomm!TypeOK
    /\ sock \in [Conns -> Peer \cup {None}]
    /\ \A p \in Peer : link[p] \in {"away", "queued", "open"} /\ inbox[p] \in 0..SendRoom
    /\ server_map \subseteq Conns /\ client_map \subseteq Conns
    /\ \A k \in Conns : /\ Len(server[k].buffer) < RecordUnits
                        /\ client[k].partial \in Rec \cup {None}
                        /\ client[k].offset < RecordUnits
                        /\ client[k].queue.size <= Depth
    /\ \A r \in Rec : content[r] \in Seq(Message) /\ Len(content[r]) <= CombineMax
    /\ refs \in [Rec -> Nat]
    /\ record_queue.items \in Seq(Rec) /\ telemetry_queue.items \in Seq(Rec)
    /\ log_message \in Rec \cup {None}

\* Who holds the record in buffer r: a queue, the held-back LOG, or a client that has it
\* in its queue or is in the middle of it.
Holders(r) ==
    LET Archd(name, holds) == IF holds THEN {<<name, None>>} ELSE {}
    IN  Archd("record_queue", r \in ToSet(record_queue.items))
          \cup Archd("telemetry_queue", r \in ToSet(telemetry_queue.items))
          \cup Archd("log_message", log_message = r)
          \cup {<<"client", k>> : k \in {c \in client_map :
                    r = client[c].partial \/ r \in ToSet(client[c].queue.items)}}

\* Every holder of a record has it once and owns a reference of its buffer: nothing archd
\* will archive or send is in memory it has given back.
RecordsAreHeld ==
    /\ IsInjective(record_queue.items) /\ IsInjective(telemetry_queue.items)
    /\ \A r \in Rec : /\ refs[r] >= Cardinality(Holders(r))
                      /\ Holders(r) # {} => content[r] # <<>>

\* When archd waits for its peers everything it has received is archived and its memory
\* is given back, but for one LOG record ("archive all available records before
\* receiving more").  For an archd without telemetry clients.
WaitsWithAllArchived ==
    phase = "select" => {r \in Rec : content[r] # <<>>} = {log_message} \ {None}

\* m and n, of one feeder and both LOG messages or both not, in the order they were sent.
MayPrecede(m, n) ==
    m.from = n.from /\ (KindOf(m) = "log" <=> KindOf(n) = "log") => m.no <= n.no

\* What a feeder sends is archived in the order it was sent, LOG messages among
\* themselves and the other records among themselves, across restarts and retries; the
\* messages of one archived record are in order too.
ArchivedInOrder ==
    \A i, j \in DOMAIN archived :
        \A x \in DOMAIN archived[i], y \in DOMAIN archived[j] :
            i < j \/ (i = j /\ x < y) => MayPrecede(archived[i][x], archived[j][y])

\* How often message m is in the records c[r], for r in R.
Times(m, c, R) ==
    Cardinality({p \in UNION {{r} \X DOMAIN c[r] : r \in R} : c[p[1]][p[2]] = m})

\* The promise to the feeders: records in memory are those of the record queue and the
\* held-back LOG; a feeder that waits takes the reply for an acknowledgement.
Payload == UNION {[from : {f}, no : 1..Len(Script[f])] : f \in Feeder}
InMemory == ToSet(record_queue.items) \cup ({log_message} \ {None})
Service == INSTANCE ArchiveService
              WITH Message <- Payload,
                   held <- [m \in Payload |-> Times(m, content, InMemory)],
                   stored <- [m \in Payload |-> Times(m, archived, DOMAIN archived)],
                   acked <- {m \in Payload : /\ m.from \notin Pipelined
                                            /\ m.no < next[m.from]
                                            /\ KindOf(m) # "control"}

\* archd keeps that promise: nothing is acknowledged that was not accepted, nothing
\* accepted is dropped or archived twice, whatever receive, combine and retry do.
ArchivesService == Service!Spec

\* archd's maps, pcomm's lists and the open sockets agree at every step: no callback
\* runs for a descriptor that was closed, none is watched twice, none is forgotten.
MonitoredAreOpen ==
    phase \notin Pcomm!Ended =>
        /\ ToSet(fds["read"]) = ListenFds \cup server_map
        /\ IsInjective(fds["read"])
        /\ ToSet(fds["write"]) \subseteq server_map \cup client_map
        /\ server_map \cap client_map = {}
        /\ \A k \in server_map : sock[k] \in Feeder
        /\ \A k \in client_map : sock[k] \in Client

\* Between callbacks whatever waits for a peer, a reply or a telemetry record, has its
\* descriptor watched for room, or it would wait until the next record.
PendingIsMonitored ==
    running = NoFd /\ ~exit_request /\ phase \notin Pcomm!Ended =>
        /\ \A k \in server_map : server[k].replies.items # <<>> => k \in ToSet(fds["write"])
        /\ \A k \in client_map : ~NothingToSend(client[k]) => k \in ToSet(fds["write"])

\* The rest of a record of which a part was sent is sent before anything else, or the
\* client is cut off: it never sees a record that is broken off.
PartialIsFinished ==
    [][\A k \in client_map \cap client_map' :
          client[k].partial # None /\ client'[k].partial = None =>
              \/ sock[k] \in shut
              \/ inbox'[sock[k]] = inbox[sock[k]] + RecordUnits - client[k].offset]_vars

\* A client is sent a record once, whether it finds it in its clone of the telemetry
\* queue, receives it later, or is in the middle of it.
RelayedOnce ==
    \A k \in client_map :
        LET c == client[k]
        IN  IsInjective(c.queue.items) /\ c.partial \notin ToSet(c.queue.items)

\* A feeder that waits is answered, or sees its connection end, unless archd has been
\* told to exit: an exit that waits for output leaves the readers waiting.
FeederIsAnswered ==
    \A f \in Feeder : awaiting[f] ~> ~awaiting[f] \/ exit_request

-----------------------------------------------------------------------------
(* What comments of the source say and the code does not do.               *)

\* archd.c:187, "Tell pcomm to finish processing all data": what was received, and
\* acknowledged, is archived before the loop ends, though the loop tests for the
\* exit in front of callback_archive.
ExitArchivesAll == phase = "returned" => record_queue.items = <<>>
==============================================================================
