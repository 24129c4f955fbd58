------------------------ MODULE ChannelTables_proofs ------------------------
(***************************************************************************)
(* Theorems about ChannelTables, for any stations, locations, channels,    *)
(* lists and hash function, and any number of commands: which setting      *)
(* decides on a record, and that without one the configuration does.       *)
(***************************************************************************)
EXTENDS ChannelTables, TLAPS

Parts == {"station", "loc", "chan"}

\* A map as map.c keeps it.
MapOk(m) ==
    /\ m = [pairs |-> m.pairs, damaged |-> m.damaged]
    /\ DOMAIN m.pairs \subseteq Key
    /\ \A k \in DOMAIN m.pairs : m.pairs[k] \in Setting

\* What is remembered of a list is what the list says.
Remembers(t) ==
    \A c \in Channel :
        MakeKey(c, Parts) \in DOMAIN shortcut[t].pairs =>
            (shortcut[t].pairs[MakeKey(c, Parts)] = "off") = CheckChannelList(t, c)

MapsInv ==
    /\ bypass = [t \in Tables |-> bypass[t]] /\ shortcut = [t \in Tables |-> shortcut[t]]
    /\ \A t \in Tables : MapOk(bypass[t]) /\ MapOk(shortcut[t]) /\ Remembers(t)
    /\ decision # NoDecision => decision.channel \in Channel

CInv == MapsInv /\ ExceptionsPokeHoles /\ ConfigOtherwise

-----------------------------------------------------------------------------
(* Keys.                                                                   *)

LEMMA ChannelParts ==
    ASSUME NEW c \in Channel
    PROVE  \A p \in Parts : c[p] # AnyPart
BY PartAssumption DEF Channel, Parts

LEMMA KeyMade ==
    ASSUME NEW c \in Channel, NEW parts
    PROVE  MakeKey(c, parts) \in Key /\ Matches(MakeKey(c, parts), c)
           /\ DOMAIN MakeKey(c, parts) = Parts
           /\ \A p \in Parts : MakeKey(c, parts)[p] = IF p \in parts THEN c[p] ELSE AnyPart
<1>1. MakeKey(c, parts) = [station |-> IF "station" \in parts THEN c.station ELSE AnyPart,
                           loc |-> IF "loc" \in parts THEN c.loc ELSE AnyPart,
                           chan |-> IF "chan" \in parts THEN c.chan ELSE AnyPart]
  BY DEF MakeKey
<1>2. MakeKey(c, parts) \in Key
  BY <1>1 DEF Key, Channel
<1> QED BY <1>2 DEF MakeKey, Matches, Parts

\* The keys CheckChannel tries are all keys that speak of the channel.
LEMMA OrderLength == Len(Order) = 8 /\ 1..Len(Order) = 1..8
BY DEF Order

LEMMA EveryKeyTried ==
    ASSUME NEW c \in Channel, NEW k \in Key, Matches(k, c)
    PROVE  \E i \in 1..8 : k = MakeKey(c, Order[i])
<1> DEFINE given == {p \in Parts : k[p] # AnyPart}
<1>1. k = MakeKey(c, given)
  BY DEF Key, Matches, MakeKey, Parts
<1>2. \E i \in 1..8 : given = Order[i]
  <2>1. given \in SUBSET Parts
    OBVIOUS
  <2> HIDE DEF given
  <2>2. given \in {{"station", "loc", "chan"}, {"station", "chan"}, {"station", "loc"}, {"station"},
                   {"loc", "chan"}, {"chan"}, {"loc"}, {}}
    BY <2>1 DEF Parts
  <2>3. /\ Order[1] = {"station", "loc", "chan"} /\ Order[2] = {"station", "chan"}
        /\ Order[3] = {"station", "loc"} /\ Order[4] = {"station"}
        /\ Order[5] = {"loc", "chan"} /\ Order[6] = {"chan"} /\ Order[7] = {"loc"} /\ Order[8] = {}
    BY DEF Order
  <2>4. \A i \in {1, 2, 3, 4, 5, 6, 7, 8} : i \in 1..8
    OBVIOUS
  <2> QED BY <2>2, <2>3, <2>4, Zenon
<1> QED BY <1>1, <1>2

\* A key tried earlier leaves a part open that a key tried later does not: no key
\* narrower than another one is tried after it.
LEMMA NarrowerFirst ==
    ASSUME NEW m \in 1..8, NEW n \in 1..8, m < n
    PROVE  \E p \in Order[m] : p \in Parts /\ p \notin Order[n]
BY DEF Order, Parts

LEMMA LeastOf ==
    ASSUME NEW S \in SUBSET (1..8), S # {}
    PROVE  \E m \in S : \A j \in S : m <= j
<1>1. CASE S \cap 1..4 # {}
  <2>1. CASE 1 \in S
    BY <2>1
  <2>2. CASE 1 \notin S /\ 2 \in S
    BY <2>2
  <2>3. CASE 1 \notin S /\ 2 \notin S /\ 3 \in S
    BY <2>3
  <2>4. CASE 1 \notin S /\ 2 \notin S /\ 3 \notin S /\ 4 \in S
    BY <2>4
  <2> QED BY <1>1, <2>1, <2>2, <2>3, <2>4
<1>2. CASE S \cap 1..4 = {}
  <2>0. \A j \in S : j \in 5..8
    BY <1>2
  <2>1. CASE 5 \in S
    BY <2>0, <2>1
  <2>2. CASE 5 \notin S /\ 6 \in S
    BY <2>0, <2>2
  <2>3. CASE 5 \notin S /\ 6 \notin S /\ 7 \in S
    BY <2>0, <2>3
  <2>4. CASE 5 \notin S /\ 6 \notin S /\ 7 \notin S /\ 8 \in S
    BY <2>0, <2>4
  <2>5. 5 \in S \/ 6 \in S \/ 7 \in S \/ 8 \in S
    <3> PICK j \in S : TRUE
      OBVIOUS
    <3>1. j = 5 \/ j = 6 \/ j = 7 \/ j = 8
      BY <2>0
    <3> QED BY <3>1
  <2> QED BY <2>1, <2>2, <2>3, <2>4, <2>5
<1> QED BY <1>1, <1>2

-----------------------------------------------------------------------------
(* Lookups.                                                                *)

\* What map_get returns of a bucket nobody has damaged.
LEMMA GetIntact ==
    ASSUME NEW m, NEW key, Bucket(key) \notin m.damaged
    PROVE  map_get(m, key) = IF key \in DOMAIN m.pairs THEN {m.pairs[key]} ELSE {Unset}
BY DEF map_get

\* CheckChannel in an intact map: the setting of the first key that has one.
LEMMA CheckedChannel ==
    ASSUME NEW m, MapOk(m), NEW c \in Channel,
           \A i \in 1..8 : Bucket(MakeKey(c, Order[i])) \notin m.damaged
    PROVE  /\ (\A i \in 1..8 : MakeKey(c, Order[i]) \notin DOMAIN m.pairs) => CheckChannel(m, c) = {Unset}
           /\ \A f \in 1..8 :
                /\ MakeKey(c, Order[f]) \in DOMAIN m.pairs
                /\ \A j \in 1..8 : MakeKey(c, Order[j]) \in DOMAIN m.pairs => f <= j
                => CheckChannel(m, c) = {m.pairs[MakeKey(c, Order[f])]}
<1> DEFINE key(i) == MakeKey(c, Order[i])
           got == [i \in 1..8 |-> map_get(m, key(i))]
           certain == {i \in 1..8 : Unset \notin got[i]}
           tried == {i \in 1..8 : \A j \in certain : i <= j}
<1>1. CheckChannel(m, c) = ((UNION {got[i] : i \in tried}) \ {Unset}) \cup (IF certain = {} THEN {Unset} ELSE {})
  BY OrderLength DEF CheckChannel
<1>2. \A i \in 1..8 : got[i] = IF key(i) \in DOMAIN m.pairs THEN {m.pairs[key(i)]} ELSE {Unset}
  BY GetIntact
<1>3. \A i \in 1..8 : key(i) \in DOMAIN m.pairs => m.pairs[key(i)] \in Setting /\ m.pairs[key(i)] # Unset
  BY DEF MapOk, Setting, Unset
<1> HIDE DEF key, got
<1>4. certain = {i \in 1..8 : key(i) \in DOMAIN m.pairs}
  BY <1>2, <1>3
<1>5. ASSUME \A i \in 1..8 : key(i) \notin DOMAIN m.pairs PROVE CheckChannel(m, c) = {Unset}
  <2>1. certain = {} /\ \A i \in tried : got[i] = {Unset}
    BY <1>2, <1>4, <1>5
  <2> QED BY <1>1, <2>1
<1>6. ASSUME NEW f \in 1..8, key(f) \in DOMAIN m.pairs,
             \A j \in 1..8 : key(j) \in DOMAIN m.pairs => f <= j
      PROVE  CheckChannel(m, c) = {m.pairs[key(f)]}
  <2>1. f \in certain /\ \A j \in certain : f <= j
    BY <1>4, <1>6
  <2>2. f \in tried
    BY <2>1
  <2>3. \A i \in tried : i # f => got[i] = {Unset}
    <3> SUFFICES ASSUME NEW i \in tried, i # f PROVE got[i] = {Unset}
      OBVIOUS
    <3>1. i \in 1..8 /\ i <= f
      BY <2>1
    <3>2. key(i) \notin DOMAIN m.pairs
      BY <1>6, <3>1
    <3> QED BY <1>2, <3>1, <3>2
  <2>4. got[f] = {m.pairs[key(f)]} /\ m.pairs[key(f)] # Unset
    BY <1>2, <1>3, <1>6
  <2>5. (UNION {got[i] : i \in tried}) \ {Unset} = {m.pairs[key(f)]}
    BY <2>2, <2>3, <2>4
  <2>6. certain # {}
    BY <2>1
  <2> QED BY <1>1, <2>5, <2>6
<1> QED BY <1>5, <1>6 DEF key

\* Two channels of one name are the same to the list.
LEMMA SameName ==
    ASSUME NEW t, NEW c \in Channel, NEW d \in Channel, MakeKey(c, Parts) = MakeKey(d, Parts)
    PROVE  CheckChannelList(t, c) = CheckChannelList(t, d)
<1>1. \A p \in Parts : c[p] = d[p]
  <2>1. \A p \in Parts : MakeKey(c, Parts)[p] = c[p] /\ MakeKey(d, Parts)[p] = d[p]
    BY KeyMade
  <2> QED BY <2>1
<1> QED BY <1>1 DEF CheckChannelList, Matches, Parts

\* map_put replaces or adds one pair.
LEMMA PutOk ==
    ASSUME NEW m, MapOk(m), NEW key \in Key, NEW value \in Setting
    PROVE  /\ MapOk(map_put(m, key, value))
           /\ DOMAIN map_put(m, key, value).pairs = DOMAIN m.pairs \cup {key}
           /\ map_put(m, key, value).pairs[key] = value
           /\ \A k \in DOMAIN m.pairs : k # key => map_put(m, key, value).pairs[k] = m.pairs[k]
<1> DEFINE pairs == [k \in DOMAIN m.pairs \cup {key} |-> IF k = key THEN value ELSE m.pairs[k]]
<1>1. map_put(m, key, value) = [pairs |-> pairs, damaged |-> m.damaged]
  BY DEF map_put, MapOk
<1>2. DOMAIN pairs = DOMAIN m.pairs \cup {key} /\ \A k \in DOMAIN pairs : pairs[k] \in Setting
  BY DEF MapOk
<1>3. pairs[key] = value /\ \A k \in DOMAIN m.pairs : k # key => pairs[k] = m.pairs[k]
  OBVIOUS
<1> HIDE DEF pairs
<1> QED BY <1>1, <1>2, <1>3 DEF MapOk

LEMMA RemoveOk ==
    ASSUME NEW m, MapOk(m), NEW key
    PROVE  MapOk(map_remove(m, key))
<1> DEFINE pairs == Restrict(m.pairs, DOMAIN m.pairs \ {key})
<1>1. PICK damaged : map_remove(m, key) = [pairs |-> pairs, damaged |-> damaged]
  BY DEF map_remove
<1>2. DOMAIN pairs \subseteq DOMAIN m.pairs /\ \A k \in DOMAIN pairs : pairs[k] = m.pairs[k]
  BY DEF Restrict
<1> HIDE DEF pairs
<1> QED BY <1>1, <1>2 DEF MapOk

-----------------------------------------------------------------------------
(* Steps.                                                                  *)

LEMMA NewMapOk == MapOk(map_new) /\ DOMAIN map_new.pairs = {}
BY DEF MapOk, map_new

LEMMA InitCInv == Init => CInv
<1> SUFFICES ASSUME Init PROVE CInv
  OBVIOUS
<1>1. /\ bypass = [t \in Tables |-> map_new] /\ shortcut = [t \in Tables |-> map_new]
      /\ decision = NoDecision
  BY DEF Init
<1>2. \A t \in Tables : bypass[t] = map_new /\ shortcut[t] = map_new
  BY <1>1
<1>3. MapsInv
  BY <1>1, <1>2, NewMapOk DEF MapsInv, Remembers
<1> QED BY <1>1, <1>3 DEF CInv, ExceptionsPokeHoles, ConfigOtherwise

\* CheckNoArchive and CheckNoIDA answer by the setting found, or else by the list,
\* and remember what the list says.
LEMMA CheckOk ==
    ASSUME MapsInv, NEW t \in Tables, NEW c \in Channel, NEW found
    PROVE  /\ found # Unset => Check(t, c, found).denied = (found = "off")
           /\ found = Unset => Check(t, c, found).denied = CheckChannelList(t, c)
           /\ MapOk(Check(t, c, found).shortcut)
           /\ \A d \in Channel : MakeKey(d, Parts) \in DOMAIN Check(t, c, found).shortcut.pairs =>
                (Check(t, c, found).shortcut.pairs[MakeKey(d, Parts)] = "off") = CheckChannelList(t, d)
<1> DEFINE name == MakeKey(c, Parts)
           says == IF CheckChannelList(t, c) THEN "off" ELSE "on"
           put == map_put(shortcut[t], name, says)
<1>1. MapOk(shortcut[t]) /\ Remembers(t)
  BY DEF MapsInv
<1>2. name \in Key /\ says \in Setting /\ (says = "off") = CheckChannelList(t, c)
  <2>1. name \in Key
    BY KeyMade
  <2>2. CheckChannelList(t, c) \in BOOLEAN
    BY DEF CheckChannelList
  <2>3. CASE CheckChannelList(t, c)
    <3>1. says = "off"
      BY <2>3
    <3>2. CheckChannelList(t, c) = TRUE
      BY <2>2, <2>3
    <3> HIDE DEF says
    <3> QED BY <2>1, <3>1, <3>2 DEF Setting
  <2>4. CASE ~CheckChannelList(t, c)
    <3>1. says = "on"
      BY <2>4
    <3>2. CheckChannelList(t, c) = FALSE
      BY <2>2, <2>4
    <3> HIDE DEF says
    <3> QED BY <2>1, <3>1, <3>2 DEF Setting
  <2> QED BY <2>3, <2>4
<1>3. CASE found # Unset
  <2>1. Check(t, c, found) = [denied |-> found = "off", shortcut |-> shortcut[t]]
    BY <1>3 DEF Check
  <2> QED BY <1>1, <1>3, <2>1 DEF Remembers
<1>4. CASE found = Unset /\ name \in DOMAIN shortcut[t].pairs
  <2>1. Check(t, c, found) = [denied |-> shortcut[t].pairs[name] = "off", shortcut |-> shortcut[t]]
    BY <1>4 DEF Check, Parts
  <2> QED BY <1>1, <1>4, <2>1 DEF Remembers
<1>5. CASE found = Unset /\ name \notin DOMAIN shortcut[t].pairs
  <2>1. Check(t, c, found) = [denied |-> CheckChannelList(t, c), shortcut |-> put]
    BY <1>5 DEF Check, Parts
  <2>2. /\ MapOk(put) /\ DOMAIN put.pairs = DOMAIN shortcut[t].pairs \cup {name}
        /\ put.pairs[name] = says
        /\ \A k \in DOMAIN shortcut[t].pairs : k # name => put.pairs[k] = shortcut[t].pairs[k]
    BY <1>1, <1>2, PutOk
  <2> HIDE DEF put, says
  <2>3. ASSUME NEW d \in Channel, MakeKey(d, Parts) \in DOMAIN put.pairs
        PROVE  (put.pairs[MakeKey(d, Parts)] = "off") = CheckChannelList(t, d)
    <3>1. CASE MakeKey(d, Parts) = name
      BY <1>2, <2>2, <3>1, SameName
    <3>2. CASE MakeKey(d, Parts) # name
      BY <1>1, <2>2, <2>3, <3>2 DEF Remembers
    <3> QED BY <3>1, <3>2
  <2> QED BY <1>5, <2>1, <2>2, <2>3
<1> QED BY <1>3, <1>4, <1>5

LEMMA DecideOk == ASSUME CInv, NEW c \in Channel, Decide(c) PROVE CInv'
<1>1. PICK found \in [Tables -> Setting \cup {Unset}] :
        /\ \A t \in Tables : found[t] \in CheckChannel(bypass[t], c)
        /\ decision' = [channel |-> c, denied |-> [t \in Tables |-> Check(t, c, found[t]).denied]]
        /\ shortcut' = [t \in Tables |-> Check(t, c, found[t]).shortcut]
        /\ UNCHANGED <<listed, bypass, commands>>
  BY DEF Decide
<1>2. MapsInv /\ UNCHANGED <<listed, bypass>>
  BY <1>1 DEF CInv
<1>3. decision'.channel = c /\ \A t \in Tables : decision'.denied[t] = Check(t, c, found[t]).denied
                                              /\ shortcut'[t] = Check(t, c, found[t]).shortcut
  BY <1>1
<1>4. \A t \in Tables, d \in Channel : CheckChannelList(t, d)' = CheckChannelList(t, d)
  BY <1>2 DEF CheckChannelList
<1>5. MapsInv'
  <2>1. ASSUME NEW t \in Tables PROVE MapOk(bypass'[t]) /\ MapOk(shortcut'[t]) /\ Remembers(t)'
    <3>1. MapOk(bypass'[t])
      BY <1>2 DEF MapsInv
    <3>2. MapOk(shortcut'[t])
      BY <1>2, <1>3, CheckOk
    <3>3. Remembers(t)'
      BY <1>2, <1>3, <1>4, CheckOk DEF Remembers
    <3> QED BY <3>1, <3>2, <3>3
  <2>2. /\ bypass' = [t \in Tables |-> bypass'[t]]
        /\ shortcut' = [t \in Tables |-> shortcut'[t]]
    BY <1>1, <1>2 DEF MapsInv
  <2> QED BY <1>3, <2>1, <2>2 DEF MapsInv
<1>6. ASSUME NEW t \in Tables, Intact(t, c), Speaking(t, c) = {}
      PROVE  decision'.denied[t] = CheckChannelList(t, c)
  <2>1. \A i \in 1..8 : /\ MakeKey(c, Order[i]) \notin DOMAIN bypass[t].pairs
                        /\ Bucket(MakeKey(c, Order[i])) \notin bypass[t].damaged
    BY <1>6, OrderLength, KeyMade DEF Speaking, Intact
  <2>2. CheckChannel(bypass[t], c) = {Unset}
    BY <1>2, <2>1, CheckedChannel DEF MapsInv
  <2>3. found[t] = Unset
    BY <1>1, <2>2
  <2> QED BY <1>2, <1>3, <2>3, CheckOk
<1>7. ASSUME NEW t \in Tables, Intact(t, c), Speaking(t, c) # {}
      PROVE  \E k \in Speaking(t, c) :
                /\ \A j \in Speaking(t, c) : ~Narrower(j, k)
                /\ decision'.denied[t] = (bypass[t].pairs[k] = "off")
  <2> DEFINE key(i) == MakeKey(c, Order[i])
             set == {i \in 1..8 : key(i) \in DOMAIN bypass[t].pairs}
  <2>1. MapOk(bypass[t]) /\ \A i \in 1..8 : Bucket(key(i)) \notin bypass[t].damaged
    BY <1>2, <1>7, OrderLength DEF MapsInv, Intact
  <2>2. \A j \in Speaking(t, c) : \E i \in set : j = key(i)
    <3> SUFFICES ASSUME NEW j \in Speaking(t, c) PROVE \E i \in set : j = key(i)
      OBVIOUS
    <3>1. j \in DOMAIN bypass[t].pairs /\ j \in Key /\ Matches(j, c)
      BY <2>1 DEF Speaking, MapOk
    <3> QED BY <3>1, EveryKeyTried
  <2>3. PICK f \in set : \A j \in set : f <= j
    <3>1. set \in SUBSET (1..8) /\ set # {}
      BY <1>7, <2>2
    <3> QED BY <3>1, LeastOf
  <2>4. key(f) \in Speaking(t, c)
    BY <2>3, KeyMade DEF Speaking
  <2>5. found[t] = bypass[t].pairs[key(f)] /\ found[t] # Unset
    <3>1. CheckChannel(bypass[t], c) = {bypass[t].pairs[key(f)]}
      BY <2>1, <2>3, CheckedChannel
    <3>2. bypass[t].pairs[key(f)] \in Setting
      BY <2>1, <2>3 DEF MapOk
    <3> QED BY <1>1, <3>1, <3>2 DEF Setting, Unset
  <2>6. ASSUME NEW j \in Speaking(t, c), Narrower(j, key(f)) PROVE FALSE
    <3>1. PICK n \in set : j = key(n)
      BY <2>2
    <3>2. f < n
      BY <2>3, <2>6, <3>1 DEF Narrower
    <3>3. PICK p \in Order[f] : p \in Parts /\ p \notin Order[n]
      BY <3>2, NarrowerFirst
    <3>4. key(f)[p] = c[p] /\ j[p] = AnyPart /\ c[p] # AnyPart
      BY <3>1, <3>3, KeyMade, ChannelParts
    <3>5. key(f)[p] \in {AnyPart, j[p]}
      BY <2>6, <3>1, <3>3, KeyMade DEF Narrower
    <3> QED BY <3>4, <3>5
  <2>7. decision'.denied[t] = (bypass[t].pairs[key(f)] = "off")
    BY <1>2, <1>3, <2>5, CheckOk
  <2> HIDE DEF key
  <2> QED BY <2>4, <2>6, <2>7
<1>8. \A t \in Tables : Speaking(t, c)' = Speaking(t, c) /\ Intact(t, c)' = Intact(t, c)
  BY <1>2 DEF Speaking, Intact
<1>9. ConfigOtherwise'
  BY <1>2, <1>3, <1>4, <1>6, <1>8 DEF ConfigOtherwise
<1>10. ExceptionsPokeHoles'
  BY <1>2, <1>3, <1>7, <1>8 DEF ExceptionsPokeHoles
<1> QED BY <1>5, <1>9, <1>10 DEF CInv

\* A step after which no record has been decided on keeps the maps in order.
LEMMA CInvStep == CInv /\ [Next]_vars => CInv'
<1> SUFFICES ASSUME CInv, [Next]_vars PROVE CInv'
  OBVIOUS
<1>0. MapsInv
  BY DEF CInv
<1>1. ASSUME NEW c \in Channel, Decide(c) PROVE CInv'
  BY <1>1, DecideOk
<1>2. ASSUME decision' = NoDecision, MapsInv' PROVE CInv'
  BY <1>2 DEF CInv, ExceptionsPokeHoles, ConfigOtherwise
<1>3. ASSUME NEW u \in Tables, NEW m, MapOk(m), bypass' = [bypass EXCEPT ![u] = m],
             decision' = NoDecision, UNCHANGED <<listed, shortcut>>
      PROVE  CInv'
  <2>1. \A t \in Tables : bypass'[t] = IF t = u THEN m ELSE bypass[t]
    BY <1>0, <1>3 DEF MapsInv
  <2>2. bypass' = [t \in Tables |-> bypass'[t]]
    BY <1>0, <1>3 DEF MapsInv
  <2>3. \A t \in Tables : MapOk(bypass'[t]) /\ MapOk(shortcut'[t])
    BY <1>0, <1>3, <2>1 DEF MapsInv
  <2>4. \A t \in Tables : Remembers(t)'
    BY <1>0, <1>3 DEF MapsInv, Remembers, CheckChannelList
  <2>5. shortcut' = [t \in Tables |-> shortcut'[t]]
    BY <1>0, <1>3 DEF MapsInv
  <2> QED BY <1>2, <1>3, <2>2, <2>3, <2>4, <2>5 DEF MapsInv
<1>4. ASSUME NEW t \in Tables, NEW key \in Commanded, NEW value \in Setting, SetChannel(t, key, value)
      PROVE  CInv'
  <2>1. MapOk(map_put(bypass[t], key, value))
    BY <1>0, PutOk, PatternAssumption DEF MapsInv
  <2> QED BY <1>3, <1>4, <2>1 DEF SetChannel
<1>5. ASSUME NEW t \in Tables, NEW key \in Commanded, DefaultChannel(t, key) PROVE CInv'
  <2>1. MapOk(map_remove(bypass[t], key))
    BY <1>0, RemoveOk DEF MapsInv
  <2> QED BY <1>3, <1>5, <2>1 DEF DefaultChannel
<1>6. CASE Restart
  <2>1. /\ bypass' = [t \in Tables |-> map_new] /\ shortcut' = [t \in Tables |-> map_new]
        /\ decision' = NoDecision
    BY <1>6 DEF Restart
  <2>2. \A t \in Tables : bypass'[t] = map_new /\ shortcut'[t] = map_new
    BY <2>1
  <2>3. MapsInv'
    BY <2>1, <2>2, NewMapOk DEF MapsInv, Remembers
  <2> QED BY <1>2, <2>1, <2>3
<1>7. CASE UNCHANGED vars
  <2>1. UNCHANGED <<listed, bypass, shortcut, decision>>
    BY <1>7 DEF vars
  <2>2. \A t \in Tables : Remembers(t)' = Remembers(t)
    BY <2>1, Zenon DEF Remembers, CheckChannelList
  <2>3. MapsInv'
    BY <1>0, <2>1, <2>2 DEF MapsInv
  <2>4. ExceptionsPokeHoles'
    BY <2>1, Zenon DEF CInv, ExceptionsPokeHoles, Speaking, Intact
  <2>5. ConfigOtherwise'
    BY <2>1, Zenon DEF CInv, ConfigOtherwise, Speaking, Intact, CheckChannelList
  <2> QED BY <2>3, <2>4, <2>5 DEF CInv
<1> QED BY <1>1, <1>4, <1>5, <1>6, <1>7 DEF Next

-----------------------------------------------------------------------------
\* The maps are well-formed, what is remembered of a list agrees with it, and the
\* last decision was right, after any commands and records.
THEOREM TablesInvariance == Spec => []CInv
<1> QED BY InitCInv, CInvStep, PTL DEF Spec

\* CheckChannel lets the narrowest setting decide, whatever the hash function does,
\* as long as no bucket the channel depends on has been damaged by remove_pair.
THEOREM NarrowestDecides == Spec => []ExceptionsPokeHoles
<1>1. CInv => ExceptionsPokeHoles
  BY DEF CInv
<1> QED BY TablesInvariance, <1>1, PTL

\* A channel no setting speaks of is treated as diskloop.config says.
THEOREM ListDecidesOtherwise == Spec => []ConfigOtherwise
<1>1. CInv => ConfigOtherwise
  BY DEF CInv
<1> QED BY TablesInvariance, <1>1, PTL
==============================================================================
