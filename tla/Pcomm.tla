-------------------------------- MODULE Pcomm --------------------------------
(***************************************************************************)
(* libpcomm/pcomm.c: the select loop that archd runs on.  _pcomm_loop      *)
(* prepares, builds one descriptor set per stream, waits in select, and    *)
(* then makes one pass per stream over a snapshot of the descriptors       *)
(* monitored at the start of the pass, calling back for the selected ones. *)
(* Callbacks add and remove descriptors, and so change the lists under the *)
(* loop; a signal handler may ask for an orderly exit at any moment.       *)
(*                                                                         *)
(* Callbacks are arbitrary here: a callback is a run of calls of pcomm's   *)
(* own functions.  Archd instantiates the loop with real ones.  Only       *)
(* pcomm_monitor_*_fd descriptors are modelled (check_only), the kind the  *)
(* system uses.                                                            *)
(***************************************************************************)
EXTENDS Integers, SequencesExt

CONSTANTS
    Fd,         \* file descriptors
    NoFd,       \* "no callback is running"
    Used,       \* the streams callbacks monitor descriptors for
    Listeners,  \* the descriptors main monitors for reading before it runs the loop
    MaxWatched  \* bound on the length of a list of descriptors

ASSUME NoFdAssumption == NoFd \notin Fd
ASSUME ListenersAssumption == Listeners \in Seq(Fd)
ASSUME WatchedAssumption == MaxWatched \in Nat

VARIABLES
    fds,           \* context->error_fds, write_fds and read_fds, in list order
    selected,      \* the descriptor sets given to select, then what it left in them
    null_sets,     \* the streams whose set pointer is NULL in this round
    todo,          \* the rest of the snapshot the current pass walks over
    running,       \* the descriptor whose ready_callback runs
    phase,         \* where _pcomm_loop is
    exit_request,  \* context->exit_request
    exit_now       \* context->exit_now

pcomm_vars == <<fds, selected, null_sets, todo, running, phase, exit_request, exit_now>>

\* PCOMM_STREAM_ERROR, PCOMM_STREAM_WRITE and PCOMM_STREAM_READ.
Stream == {"error", "write", "read"}
Ended == {"returned", "null_read", "killed"}
Phase == Stream \cup Ended \cup {"top", "prepare", "populate", "select", "timeout"}

ASSUME UsedAssumption == Used \subseteq Stream

NoSets == [s \in Stream |-> {}]

-----------------------------------------------------------------------------
(* The lists of descriptors.                                               *)

\* A slip a maintainer could make here, for the mutation checks.
AddedAgain(lists, s, f) == [lists EXCEPT ![s] = Append(@, f)]

\* _pcomm_add_output_fd keeps one entry per descriptor, _pcomm_add_input_fd does not look.
Added(lists, s, f) ==
    IF s = "write" /\ f \in ToSet(lists[s]) THEN lists
    ELSE [lists EXCEPT ![s] = Append(@, f)]

\* pcomm_monitor_read_fd and its two siblings refuse once an exit has been requested.
Monitored(lists, s, f) == IF exit_request THEN lists ELSE Added(lists, s, f)

\* _pcomm_remove_fd deletes the first entry.
Unmonitored(lists, s, f) == [lists EXCEPT ![s] = RemoveFirst(@, f)]

\* _pcomm_writes_buffered "assumes that all writes are being handled correctly".
WritesBuffered == fds["write"] # <<>>

-----------------------------------------------------------------------------
(* The loop.                                                               *)

InitialLists == [s \in Stream |-> IF s = "read" THEN Listeners ELSE <<>>]

Init ==
    /\ fds = InitialLists
    /\ selected = NoSets
    /\ null_sets = Stream
    /\ todo = <<>>
    /\ running = NoFd
    /\ phase = "top"
    /\ exit_request = FALSE
    /\ exit_now = FALSE

InCallback == phase \in {"prepare", "timeout"} \/ running # NoFd

\* A slip a maintainer could make here, for the mutation checks.
LoopTopWaitsForWrites ==
    /\ phase = "top"
    /\ IF exit_request /\ ~WritesBuffered
       THEN exit_now' = TRUE /\ phase' = "returned"
       ELSE exit_now' = exit_now /\ phase' = "prepare"
    /\ UNCHANGED <<fds, selected, null_sets, todo, running, exit_request>>

\* The while condition and the first test of the loop.
LoopTop ==
    /\ phase = "top"
    /\ IF exit_now \/ (exit_request /\ ~WritesBuffered)
       THEN exit_now' = TRUE /\ phase' = "returned"
       ELSE exit_now' = exit_now /\ phase' = "prepare"
    /\ UNCHANGED <<fds, selected, null_sets, todo, running, exit_request>>

\* The sets live for one round: back at the top of the loop nothing is left of them.
RoundOver == selected' = NoSets /\ null_sets' = Stream /\ todo' = <<>>

\* A slip a maintainer could make here, for the mutation checks.
PrepareStopForgotten ==
    /\ phase = "populate"
    /\ exit_now
    /\ phase' = "timeout"
    /\ UNCHANGED <<fds, selected, null_sets, todo, running, exit_request, exit_now>>

\* _pcomm_populate_set for each stream; only the write set once an exit is requested.
\* A stream without descriptors has a NULL set; without any descriptor the loop ends.
Populate ==
    /\ phase = "populate"
    /\ ~exit_now
    /\ selected' = [s \in Stream |->
                      IF s = "write" \/ ~exit_request THEN ToSet(fds[s]) ELSE {}]
    /\ null_sets' = {s \in Stream : selected'[s] = {}}
    /\ exit_now' = (selected' = NoSets)
    /\ phase' = IF selected' = NoSets THEN "top" ELSE "select"
    /\ UNCHANGED <<fds, todo, running, exit_request>>

\* pcomm_stop(immediately) from the prepare callback: the test after it.
PrepareStopped ==
    /\ phase = "populate"
    /\ exit_now
    /\ phase' = "top"
    /\ UNCHANGED <<fds, selected, null_sets, todo, running, exit_request, exit_now>>

\* _process_selected_fds for stream s begins with a copy of its list.
BeginPass(s) == phase' = s /\ todo' = fds[s]

\* select returns, having left the descriptors that are ready in the sets.
SelectReady ==
    /\ phase = "select"
    /\ selected' \in [Stream -> SUBSET Fd]
    /\ \A s \in Stream : selected'[s] \subseteq selected[s]
    /\ selected' # NoSets
    /\ BeginPass("error")
    /\ UNCHANGED <<fds, null_sets, running, exit_request, exit_now>>

\* select times out and the timeout callback begins.
SelectTimeout ==
    /\ phase = "select"
    /\ phase' = "timeout"
    /\ RoundOver
    /\ UNCHANGED <<fds, running, exit_request, exit_now>>

\* select fails with EBADF, EINVAL or ENOMEM.
SelectFails ==
    /\ phase = "select"
    /\ exit_now' = TRUE
    /\ phase' = "top"
    /\ RoundOver
    /\ UNCHANGED <<fds, running, exit_request>>

\* The positions of the snapshot that are selected and still monitored.
Due == {i \in DOMAIN todo : todo[i] \in selected[phase] /\ todo[i] \in ToSet(fds[phase])}

InPass == phase \in Stream /\ running = NoFd

\* A slip a maintainer could make here, for the mutation checks.
StartWithoutAdvance ==
    /\ InPass
    /\ ~exit_now
    /\ phase \notin null_sets
    /\ Due # {}
    /\ running' = todo[Min(Due)]
    /\ UNCHANGED <<fds, selected, null_sets, todo, phase, exit_request, exit_now>>

\* The loop over the snapshot reaches its next selected descriptor and calls back.
StartCallback ==
    /\ InPass
    /\ ~exit_now
    /\ phase \notin null_sets
    /\ Due # {}
    /\ running' = todo[Min(Due)]
    /\ todo' = SubSeq(todo, Min(Due) + 1, Len(todo))
    /\ UNCHANGED <<fds, selected, null_sets, phase, exit_request, exit_now>>

\* FD_ISSET reads through the NULL pointer of a stream that has descriptors now.
ReadNullSet ==
    /\ InPass
    /\ ~exit_now
    /\ phase \in null_sets
    /\ todo # <<>>
    /\ phase' = "null_read"
    /\ UNCHANGED <<fds, selected, null_sets, todo, running, exit_request, exit_now>>

\* A slip a maintainer could make here, for the mutation checks.
EndPassEarly ==
    /\ InPass
    /\ IF phase = "read" THEN phase' = "top" /\ RoundOver
       ELSE /\ BeginPass(IF phase = "error" THEN "write" ELSE "read")
            /\ UNCHANGED <<selected, null_sets>>
    /\ UNCHANGED <<fds, running, exit_request, exit_now>>

\* Nothing is left to call back for: the next stream, or the top of the loop.
EndPass ==
    /\ InPass
    /\ exit_now \/ todo = <<>> \/ (phase \notin null_sets /\ Due = {})
    /\ IF phase = "read" THEN phase' = "top" /\ RoundOver
       ELSE /\ BeginPass(IF phase = "error" THEN "write" ELSE "read")
            /\ UNCHANGED <<selected, null_sets>>
    /\ UNCHANGED <<fds, running, exit_request, exit_now>>

\* A callback returns to the loop.
Return ==
    /\ running' = NoFd
    /\ phase' = CASE phase = "prepare" -> "populate" [] phase = "timeout" -> "top"
                  [] OTHER -> phase

\* Or it goes on.
Continue == UNCHANGED <<running, phase>>

-----------------------------------------------------------------------------
(* What callbacks and signals do.                                          *)

\* A callback leaves the lists as in lists.
CallbackLeaves(lists) ==
    /\ InCallback
    /\ fds' = lists
    /\ UNCHANGED <<selected, null_sets, todo, exit_request, exit_now>>

\* The steps of a callback: pcomm_monitor_*_fd, pcomm_remove_*_fd, closing a descriptor
\* after taking it out of every list, pcomm_stop(immediately), or nothing for pcomm.
CallbackMonitors(s, f) ==
    /\ Len(fds[s]) < MaxWatched
    /\ CallbackLeaves(Monitored(fds, s, f))
CallbackRemoves(s, f) == CallbackLeaves(Unmonitored(fds, s, f))
CallbackCloses(f) == CallbackLeaves([s \in Stream |-> RemoveFirst(fds[s], f)])
CallbackRuns == CallbackLeaves(fds)
CallbackStops ==
    /\ InCallback
    /\ exit_request' = TRUE
    /\ exit_now' = TRUE
    /\ UNCHANGED <<fds, selected, null_sets, todo>>

\* A signal handler calls pcomm_stop(not immediately).  A signal that reaches the
\* process inside select makes it return EINTR, and the loop stops at once.
Signal ==
    /\ phase \notin Ended
    /\ exit_request' = TRUE
    /\ \/ UNCHANGED <<exit_now, phase, selected, null_sets, todo>>
       \/ phase = "select" /\ exit_now' = TRUE /\ phase' = "top" /\ RoundOver
    /\ UNCHANGED <<fds, running>>

\* The process is killed, and started again: pcomm_init, the listeners, pcomm_main.
Kill ==
    /\ phase \notin Ended
    /\ phase' = "killed"
    /\ running' = NoFd
    /\ RoundOver
    /\ UNCHANGED <<fds, exit_request, exit_now>>
Start ==
    /\ phase \in Ended
    /\ fds' = InitialLists
    /\ selected' = NoSets
    /\ null_sets' = Stream
    /\ todo' = <<>>
    /\ running' = NoFd
    /\ phase' = "top"
    /\ exit_request' = FALSE
    /\ exit_now' = FALSE

Callback ==
    /\ \/ \E s \in Used, f \in Fd : CallbackMonitors(s, f) \/ CallbackRemoves(s, f)
       \/ \E f \in Fd : CallbackCloses(f)
       \/ CallbackStops
       \/ CallbackRuns
    /\ Return \/ Continue

Loop ==
    \/ LoopTop
    \/ Populate
    \/ PrepareStopped
    \/ SelectReady
    \/ SelectTimeout
    \/ SelectFails
    \/ StartCallback
    \/ ReadNullSet
    \/ EndPass

Next == Loop \/ Callback \/ Signal \/ Kill \/ Start

Spec == Init /\ [][Next]_pcomm_vars

\* The loop is a single thread that runs while it can, and callbacks return.
Fairness ==
    /\ WF_pcomm_vars(Loop)
    /\ WF_pcomm_vars(CallbackRuns /\ Return)

FairSpec == Spec /\ Fairness

-----------------------------------------------------------------------------
(* Properties.                                                             *)

\* Types: the lists, the sets and the flags of pcomm_context_t and of the loop.
TypeOK ==
    /\ fds \in [Stream -> Seq(Fd)]
    /\ selected \in [Stream -> SUBSET Fd]
    /\ null_sets \in SUBSET Stream
    /\ todo \in Seq(Fd)
    /\ running \in Fd \cup {NoFd}
    /\ phase \in Phase
    /\ exit_request \in BOOLEAN
    /\ exit_now \in BOOLEAN

\* No descriptor is on the write list twice: its entry would outlive the removal by
\* the callback that has nothing left to send, and writes would be buffered for ever.
WriteListedOnce == IsInjective(fds["write"])

\* In one pass over the writers a descriptor is called back at most once, also when
\* callbacks take it off the list and put it on again behind the position reached.
WrittenOncePerPass ==
    phase = "write" => IsInjective(todo) /\ running \notin ToSet(todo)

\* After pcomm_stop(immediately) no callback begins: exit_now is tested after the
\* prepare callback, in front of every pass and between any two callbacks of a pass.
NoCallbackAfterStop ==
    [][exit_now /\ exit_now' /\ InCallback' => running' = running /\ phase' = phase]_pcomm_vars

\* A descriptor select reported, still ahead in the pass over its stream, is called
\* back, taken off the list by another callback, or left by a loop that ends.
ReadyIsServed ==
    \A s \in Stream, f \in Fd :
        (phase = s /\ f \in ToSet(todo) /\ f \in selected[s])
            ~> (phase = s /\ running = f) \/ f \notin ToSet(fds[s])
               \/ exit_now \/ phase \in Ended

\* A stopped loop ends: none of its branches goes round again.
StopEnds == exit_now ~> phase \in Ended
==============================================================================
