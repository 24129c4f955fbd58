---------------------------- MODULE ArchiveService ----------------------------
(***************************************************************************)
(* What archd promises its feeders, without sockets, queues or buffers:    *)
(* a message archd has accepted is stored once, in its own time; it is     *)
(* acknowledged only once accepted; what is accepted and not yet stored    *)
(* may be lost when archd is started anew, and nothing else is.            *)
(***************************************************************************)
EXTENDS Integers

CONSTANT Message

VARIABLES
    held,    \* how often each message is held in memory
    stored,  \* how often each message has been archived
    acked    \* the messages whose sender has been told

service_vars == <<held, stored, acked>>

Nowhere == [m \in Message |-> 0]

Init == held = Nowhere /\ stored = Nowhere /\ acked = {}

Accept ==
    /\ \E m \in Message : held' = [held EXCEPT ![m] = @ + 1]
    /\ UNCHANGED <<stored, acked>>

\* Some of what is held is archived.
Store ==
    /\ \A m \in Message : /\ held'[m] + stored'[m] = held[m] + stored[m]
                          /\ stored'[m] >= stored[m]
    /\ UNCHANGED acked

Acknowledge ==
    /\ \E m \in Message :
          /\ held[m] + stored[m] > 0
          /\ acked' = acked \cup {m}
    /\ UNCHANGED <<held, stored>>

Restart == held' = Nowhere /\ UNCHANGED <<stored, acked>>

Next == Accept \/ Store \/ Acknowledge \/ Restart

Spec == Init /\ [][Next]_service_vars
==============================================================================
