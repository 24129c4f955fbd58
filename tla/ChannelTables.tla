---------------------------- MODULE ChannelTables ----------------------------
(***************************************************************************)
(* lib/disklooplib.c and lib/map.c: which channels archd keeps.  For each  *)
(* destination (the archive, the IDA disk loop) there is a list of         *)
(* patterns from diskloop.config, a map of the settings operators have     *)
(* sent (CHANNELCONTROL messages), and a map that remembers what the list  *)
(* said of a channel.  The maps die with archd.                            *)
(*                                                                         *)
(* A map is the pairs it was given and the buckets whose memory            *)
(* remove_pair has damaged: it moves the pairs behind the removed one from *)
(* the wrong address and shrinks the bucket twice, so unless the pair was  *)
(* alone there, what a later lookup in the bucket finds is arbitrary.      *)
(***************************************************************************)
EXTENDS Integers, Sequences, FiniteSets, Functions

CONSTANTS
    Tables,                     \* the destinations
    Stations, Locs, Chans,      \* the parts of channel names
    AnyPart,                    \* an empty part of a key: it stands for every one
    Bucket(_),                  \* hash(key) % map->count
    Patterns,                   \* what a list of diskloop.config may hold
    Commanded,                  \* the keys commands are sent for
    MaxCommands,                \* bound on commands
    NoDecision                  \* no record has been decided on since the last command

Channel == [station : Stations, loc : Locs, chan : Chans]
Key == [station : Stations \cup {AnyPart}, loc : Locs \cup {AnyPart}, chan : Chans \cup {AnyPart}]

ASSUME PartAssumption == AnyPart \notin Stations \cup Locs \cup Chans
ASSUME PatternAssumption == Patterns \subseteq Key /\ Commanded \subseteq Key
ASSUME CommandAssumption == MaxCommands \in Nat

VARIABLES
    listed,    \* pNoArchiveList, pNoIDAList
    bypass,    \* pChannelToArchive, pChannelToIDA
    shortcut,  \* pNoArchiveShortcut, pNoIDAShortcut
    decision,  \* the last record's channel, and whether each destination was denied it
    commands

vars == <<listed, bypass, shortcut, decision, commands>>

Setting == {"on", "off"}
Unset == "unset"

TypeOK ==
    /\ listed \in [Tables -> SUBSET Patterns]
    /\ \A t \in Tables : \A m \in {bypass[t], shortcut[t]} :
        /\ DOMAIN m.pairs \subseteq Key /\ Range(m.pairs) \subseteq Setting
        /\ m.damaged \subseteq {Bucket(k) : k \in Key}
    /\ decision = NoDecision \/ decision \in [channel : Channel, denied : [Tables -> BOOLEAN]]
    /\ commands \in 0..MaxCommands

-----------------------------------------------------------------------------
(* lib/map.c.                                                              *)

map_new == [pairs |-> [k \in {} |-> Unset], damaged |-> {}]

\* What map_get may return.
map_get(m, key) ==
    IF Bucket(key) \in m.damaged THEN Setting \cup {Unset}
    ELSE IF key \in DOMAIN m.pairs THEN {m.pairs[key]} ELSE {Unset}

map_put(m, key, value) ==
    [m EXCEPT !.pairs = [k \in DOMAIN @ \cup {key} |-> IF k = key THEN value ELSE @[k]]]

\* remove_pair: the bucket is damaged unless the pair was its only one.
map_remove(m, key) ==
    LET shared == \E k \in DOMAIN m.pairs \ {key} : Bucket(k) = Bucket(key)
    IN  [pairs |-> Restrict(m.pairs, DOMAIN m.pairs \ {key}),
         damaged |-> IF key \in DOMAIN m.pairs /\ shared THEN m.damaged \cup {Bucket(key)} ELSE m.damaged]

-----------------------------------------------------------------------------
(* Lookups.                                                                *)

\* CheckChannelList: an entry matches where it is empty or agrees.
Matches(pattern, channel) ==
    \A part \in {"station", "loc", "chan"} : pattern[part] \in {AnyPart, channel[part]}
CheckChannelList(t, channel) == \E p \in listed[t] : Matches(p, channel)

\* MakeKey, with some of the parts left empty.
MakeKey(channel, parts) == [p \in {"station", "loc", "chan"} |-> IF p \in parts THEN channel[p] ELSE AnyPart]

\* A slip a maintainer could make here, for the mutation checks.
StationFirst == <<
    {"station", "loc", "chan"}, {"station"}, {"station", "chan"}, {"station", "loc"},
    {"loc", "chan"}, {"chan"}, {"loc"}, {}>>
\* CheckChannel: the keys it tries, one after the other.
Order == <<
    {"station", "loc", "chan"}, {"station", "chan"}, {"station", "loc"}, {"station"},
    {"loc", "chan"}, {"chan"}, {"loc"}, {}>>
CheckChannel(m, channel) ==
    LET got == [i \in 1..Len(Order) |-> map_get(m, MakeKey(channel, Order[i]))]
        certain == {i \in 1..Len(Order) : Unset \notin got[i]}
        tried == {i \in 1..Len(Order) : \A j \in certain : i <= j}
    IN  ((UNION {got[i] : i \in tried}) \ {Unset}) \cup (IF certain = {} THEN {Unset} ELSE {})

\* A slip a maintainer could make here, for the mutation checks.
ForgetfulCheck(t, channel, found) ==
    LET name == MakeKey(channel, {"loc", "chan"})
    IN  IF found # Unset THEN [denied |-> found = "off", shortcut |-> shortcut[t]]
        ELSE IF name \in DOMAIN shortcut[t].pairs
        THEN [denied |-> shortcut[t].pairs[name] = "off", shortcut |-> shortcut[t]]
        ELSE [denied |-> CheckChannelList(t, channel),
              shortcut |-> map_put(shortcut[t], name, IF CheckChannelList(t, channel) THEN "off" ELSE "on")]
\* CheckNoArchive, CheckNoIDA: a setting, what the list is known to say, or the
\* list, which is then remembered.  found is what CheckChannel returned.
Check(t, channel, found) ==
    LET name == MakeKey(channel, {"station", "loc", "chan"})
    IN  IF found # Unset THEN [denied |-> found = "off", shortcut |-> shortcut[t]]
        ELSE IF name \in DOMAIN shortcut[t].pairs
        THEN [denied |-> shortcut[t].pairs[name] = "off", shortcut |-> shortcut[t]]
        ELSE [denied |-> CheckChannelList(t, channel),
              shortcut |-> map_put(shortcut[t], name, IF CheckChannelList(t, channel) THEN "off" ELSE "on")]

-----------------------------------------------------------------------------
(* archd: a record arrives, a command arrives, archd is started again.     *)

\* archive_record asks for both destinations.
Decide(channel) ==
    \E found \in [Tables -> Setting \cup {Unset}] :
        /\ \A t \in Tables : found[t] \in CheckChannel(bypass[t], channel)
        /\ decision' = [channel |-> channel, denied |-> [t \in Tables |-> Check(t, channel, found[t]).denied]]
        /\ shortcut' = [t \in Tables |-> Check(t, channel, found[t]).shortcut]
        /\ UNCHANGED <<listed, bypass, commands>>

\* ChannelControl, ON and OFF.
SetChannel(t, key, value) ==
    /\ commands < MaxCommands /\ commands' = commands + 1
    /\ bypass' = [bypass EXCEPT ![t] = map_put(@, key, value)]
    /\ decision' = NoDecision
    /\ UNCHANGED <<listed, shortcut>>

\* ChannelControl, DEFAULT.
DefaultChannel(t, key) ==
    /\ commands < MaxCommands /\ commands' = commands + 1
    /\ bypass' = [bypass EXCEPT ![t] = map_remove(@, key)]
    /\ decision' = NoDecision
    /\ UNCHANGED <<listed, shortcut>>

\* archd is killed, or dies of damaged memory, and is started again; the
\* configuration may have been edited.
Restart ==
    /\ listed' \in [Tables -> SUBSET Patterns]
    /\ bypass' = [t \in Tables |-> map_new] /\ shortcut' = [t \in Tables |-> map_new]
    /\ decision' = NoDecision
    /\ UNCHANGED commands

Init ==
    /\ listed \in [Tables -> SUBSET Patterns]
    /\ bypass = [t \in Tables |-> map_new] /\ shortcut = [t \in Tables |-> map_new]
    /\ decision = NoDecision /\ commands = 0

Next ==
    \/ \E channel \in Channel : Decide(channel)
    \/ \E t \in Tables, key \in Commanded, value \in Setting : SetChannel(t, key, value)
    \/ \E t \in Tables, key \in Commanded : DefaultChannel(t, key)
    \/ Restart

Spec == Init /\ [][Next]_vars

-----------------------------------------------------------------------------
(* Properties.                                                             *)

\* The settings that speak of a channel, and which of two is the narrower one.
Speaking(t, channel) == {k \in DOMAIN bypass[t].pairs : Matches(k, channel)}
Narrower(k, j) == k # j /\ \A part \in DOMAIN k : j[part] \in {AnyPart, k[part]}

\* No key that could decide on the channel is in a damaged bucket.
Intact(t, channel) == \A i \in 1..Len(Order) : Bucket(MakeKey(channel, Order[i])) \notin bypass[t].damaged

\* "This will allow the user to create blanket rules, then poke holes with more
\* specific exceptions" (CheckChannel): a record goes where a setting says that
\* speaks of its channel and has no narrower one beside it, after any sequence
\* of ON, OFF and DEFAULT commands; unless a DEFAULT damaged the bucket of a key
\* of the channel.
ExceptionsPokeHoles ==
    decision # NoDecision => \A t \in Tables :
        LET rules == Speaking(t, decision.channel)
        IN  rules # {} /\ Intact(t, decision.channel) =>
                \E k \in rules :
                    /\ \A j \in rules : ~Narrower(j, k)
                    /\ decision.denied[t] = (bypass[t].pairs[k] = "off")

\* A channel of which no setting speaks is denied to a destination exactly if the
\* list of that destination names it, whatever was remembered in between, and
\* also after a DEFAULT has taken the settings back.
ConfigOtherwise ==
    decision # NoDecision => \A t \in Tables :
        Speaking(t, decision.channel) = {} /\ Intact(t, decision.channel) =>
            decision.denied[t] = CheckChannelList(t, decision.channel)
==============================================================================
