----------------------------- MODULE Pcomm_proofs -----------------------------
(***************************************************************************)
(* Theorems about Pcomm, for any descriptors, listeners and callbacks: the *)
(* lists stay well-formed, a writer is called back at most once in a pass, *)
(* and no callback begins once the loop has been stopped.                  *)
(***************************************************************************)
EXTENDS Pcomm, SequenceTheorems, WellFoundedInduction, TLAPS

-----------------------------------------------------------------------------
(* Lists.                                                                  *)

\* The least index of a set of positions is one of them.
LEMMA MinInSet ==
    ASSUME NEW S, S \subseteq Nat, S # {}
    PROVE  Min(S) \in S
<1>1. PICK m \in S : \A n \in S : ~(<<n, m>> \in OpToRel(<, Nat))
  BY NatLessThanWellFounded, WFMin
<1>2. \A n \in S : m <= n
  <2> SUFFICES ASSUME NEW n \in S PROVE m <= n
    OBVIOUS
  <2>1. <<n, m>> \in Nat \X Nat
    OBVIOUS
  <2>2. ~(n < m)
    BY <1>1, <2>1 DEF OpToRel
  <2> QED BY <2>2
<1> QED BY <1>2 DEF Min

\* Leaving out one position of a list keeps its type; of distinct elements the others are
\* left, still distinct.
LEMMA RemoveAtDistinct ==
    ASSUME NEW S, NEW s \in Seq(S), NEW i \in 1..Len(s)
    PROVE  /\ RemoveAt(s, i) \in Seq(S)
           /\ IsInjective(s) => /\ IsInjective(RemoveAt(s, i))
                                /\ ToSet(RemoveAt(s, i)) = ToSet(s) \ {s[i]}
<1> DEFINE a == SubSeq(s, 1, i - 1)
           b == SubSeq(s, i + 1, Len(s))
<1>1. Len(s) \in Nat /\ \A j \in 1..Len(s) : s[j] \in S
  BY LenProperties, ElementOfSeq
<1>2. a \in Seq(S) /\ Len(a) = i - 1 /\ \A j \in 1..(i - 1) : a[j] = s[j]
  <2>1. \A j \in 1..(i - 1) : s[j] \in S
    BY <1>1
  <2>2. a \in Seq(S) /\ Len(a) = (IF 1 <= i - 1 THEN i - 1 - 1 + 1 ELSE 0)
        /\ \A j \in 1..(i - 1 - 1 + 1) : a[j] = s[1 + j - 1]
    BY <1>1, <2>1, SubSeqProperties
  <2> QED BY <1>1, <2>2
<1>3. b \in Seq(S) /\ Len(b) = Len(s) - i /\ \A j \in 1..(Len(s) - i) : b[j] = s[i + j]
  <2>1. \A j \in (i + 1)..Len(s) : s[j] \in S
    BY <1>1
  <2>2. b \in Seq(S) /\ Len(b) = (IF i + 1 <= Len(s) THEN Len(s) - (i + 1) + 1 ELSE 0)
        /\ \A j \in 1..(Len(s) - (i + 1) + 1) : b[j] = s[i + 1 + j - 1]
    BY <1>1, <2>1, SubSeqProperties
  <2> QED BY <1>1, <2>2
<1> DEFINE r == a \o b
<1> HIDE DEF a, b
<1>4. /\ r \in Seq(S) /\ Len(r) = Len(s) - 1
      /\ \A j \in 1..Len(r) : r[j] = IF j <= i - 1 THEN s[j] ELSE s[j + 1]
  <2>1. r \in Seq(S) /\ Len(r) = Len(a) + Len(b)
        /\ \A j \in 1..(Len(a) + Len(b)) : r[j] = IF j <= Len(a) THEN a[j] ELSE b[j - Len(a)]
    BY <1>2, <1>3, ConcatProperties
  <2>2. Len(r) = Len(s) - 1
    BY <1>1, <1>2, <1>3, <2>1
  <2>3. ASSUME NEW j \in 1..Len(r)
        PROVE  r[j] = IF j <= i - 1 THEN s[j] ELSE s[j + 1]
    <3>1. CASE j <= i - 1
      BY <3>1, <2>1, <2>2, <1>1, <1>2, <1>3
    <3>2. CASE ~(j <= i - 1)
      <4>1. j - (i - 1) \in 1..(Len(s) - i)
        BY <3>2, <2>2, <1>1
      <4>2. b[j - (i - 1)] = s[i + (j - (i - 1))]
        BY <4>1, <1>3
      <4>3. i + (j - (i - 1)) = j + 1
        BY <2>2, <1>1
      <4> QED BY <3>2, <4>2, <4>3, <2>1, <2>2, <1>2, <1>1
    <3> QED BY <3>1, <3>2
  <2> QED BY <2>1, <2>2, <2>3
<1> HIDE DEF r
<1>5. ASSUME IsInjective(s) PROVE IsInjective(r)
  <2>1. DOMAIN r = 1..Len(r) /\ DOMAIN s = 1..Len(s)
    BY <1>4, LenProperties
  <2>2. SUFFICES ASSUME NEW j \in 1..Len(r), NEW k \in 1..Len(r), r[j] = r[k] PROVE j = k
    BY <2>1 DEF IsInjective
  <2> DEFINE at(x) == IF x <= i - 1 THEN x ELSE x + 1
  <2>3. at(j) \in 1..Len(s) /\ at(k) \in 1..Len(s)
    BY <1>1, <1>4
  <2>4. s[at(j)] = s[at(k)]
    BY <1>4, <2>2
  <2>5. at(j) = at(k)
    BY <1>5, <2>1, <2>3, <2>4 DEF IsInjective
  <2> QED BY <2>5, <1>1, <1>4
<1>6. ASSUME IsInjective(s) PROVE ToSet(r) = ToSet(s) \ {s[i]}
  <2>1. DOMAIN r = 1..Len(r) /\ DOMAIN s = 1..Len(s)
    BY <1>4, LenProperties
  <2>2. ASSUME NEW j \in 1..Len(r) PROVE r[j] \in ToSet(s) /\ r[j] # s[i]
    <3> DEFINE at == IF j <= i - 1 THEN j ELSE j + 1
    <3>1. at \in 1..Len(s) /\ at # i
      BY <1>1, <1>4
    <3>2. r[j] = s[at]
      BY <1>4
    <3> HIDE DEF at
    <3> QED BY <3>1, <3>2, <2>1, <1>6 DEF IsInjective, ToSet
  <2>3. ASSUME NEW j \in 1..Len(s), j # i PROVE s[j] \in ToSet(r)
    <3> DEFINE at == IF j <= i - 1 THEN j ELSE j - 1
    <3>1. at \in 1..Len(r) /\ j = IF at <= i - 1 THEN at ELSE at + 1
      BY <1>1, <1>4, <2>3
    <3>2. r[at] = s[j]
      BY <3>1, <1>4
    <3> HIDE DEF at
    <3> QED BY <3>1, <3>2, <2>1 DEF ToSet
  <2>4. ToSet(r) \subseteq ToSet(s) \ {s[i]}
    BY <2>1, <2>2 DEF ToSet
  <2>5. ToSet(s) \ {s[i]} \subseteq ToSet(r)
    BY <2>1, <2>3 DEF ToSet
  <2> QED BY <2>4, <2>5
<1>7. RemoveAt(s, i) = r
  BY DEF RemoveAt, r, a, b
<1> QED BY <1>4, <1>5, <1>6, <1>7

\* _pcomm_remove_fd keeps a list's type; from distinct descriptors it takes the given one.
LEMMA RemoveFirstDistinct ==
    ASSUME NEW S, NEW s \in Seq(S), NEW e
    PROVE  /\ RemoveFirst(s, e) \in Seq(S)
           /\ IsInjective(s) => /\ IsInjective(RemoveFirst(s, e))
                                /\ ToSet(RemoveFirst(s, e)) = ToSet(s) \ {e}
<1>1. CASE \E i \in 1..Len(s) : s[i] = e
  <2> DEFINE I == {i \in 1..Len(s) : s[i] = e}
  <2>1. I \subseteq Nat /\ I # {}
    BY <1>1
  <2>2. Min(I) \in 1..Len(s) /\ s[Min(I)] = e
    BY <2>1, MinInSet
  <2>3. SelectInSeq(s, LAMBDA v : v = e) = Min(I)
    BY <1>1 DEF SelectInSeq
  <2>4. RemoveFirst(s, e) = RemoveAt(s, Min(I))
    BY <1>1, <2>3 DEF RemoveFirst
  <2> HIDE DEF I
  <2> QED BY <2>2, <2>4, RemoveAtDistinct
<1>2. CASE ~\E i \in 1..Len(s) : s[i] = e
  <2>1. e \notin ToSet(s)
    BY <1>2, LenProperties DEF ToSet
  <2>2. RemoveFirst(s, e) = s
    BY <1>2 DEF RemoveFirst
  <2> QED BY <2>1, <2>2
<1> QED BY <1>1, <1>2

\* Appending something new to distinct elements leaves them distinct.
LEMMA AppendDistinct ==
    ASSUME NEW S, NEW s \in Seq(S), NEW e \in S
    PROVE  /\ Append(s, e) \in Seq(S)
           /\ ToSet(Append(s, e)) = ToSet(s) \cup {e}
           /\ IsInjective(s) /\ e \notin ToSet(s) => IsInjective(Append(s, e))
<1>1. /\ Append(s, e) \in Seq(S)
      /\ Len(Append(s, e)) = Len(s) + 1
      /\ \A i \in 1..Len(s) : Append(s, e)[i] = s[i]
      /\ Append(s, e)[Len(s) + 1] = e
  BY AppendProperties
<1>2. DOMAIN Append(s, e) = 1..(Len(s) + 1) /\ DOMAIN s = 1..Len(s) /\ Len(s) \in Nat
  BY <1>1, LenProperties
<1> DEFINE r == Append(s, e)
<1> HIDE DEF r
<1>3. ASSUME IsInjective(s), e \notin ToSet(s), NEW j \in 1..(Len(s) + 1),
             NEW k \in 1..(Len(s) + 1), r[j] = r[k]
      PROVE  j = k
  <2>1. \A i \in 1..Len(s) : s[i] # e
    BY <1>2, <1>3 DEF ToSet
  <2>2. CASE j \in 1..Len(s) /\ k \in 1..Len(s)
    BY <2>2, <1>1, <1>2, <1>3 DEF IsInjective, r
  <2>3. CASE j = Len(s) + 1 \/ k = Len(s) + 1
    BY <2>1, <2>3, <1>1, <1>2, <1>3 DEF r
  <2> QED BY <2>2, <2>3, <1>2
<1>4. ToSet(r) = ToSet(s) \cup {e}
  <2>1. \A x : x \in ToSet(r) <=> \E i \in 1..(Len(s) + 1) : x = r[i]
    BY <1>2 DEF ToSet, r
  <2>2. \A x : x \in ToSet(s) <=> \E i \in 1..Len(s) : x = s[i]
    BY <1>2 DEF ToSet
  <2>3. /\ \A i \in 1..Len(s) : i \in 1..(Len(s) + 1) /\ r[i] = s[i]
        /\ Len(s) + 1 \in 1..(Len(s) + 1) /\ r[Len(s) + 1] = e
        /\ \A i \in 1..(Len(s) + 1) : i \in 1..Len(s) \/ i = Len(s) + 1
    BY <1>1, <1>2 DEF r
  <2> QED BY <2>1, <2>2, <2>3
<1> QED BY <1>1, <1>2, <1>3, <1>4 DEF IsInjective, r

\* What follows a position of a list: the element there does not come again.
LEMMA RestDistinct ==
    ASSUME NEW S, NEW s \in Seq(S), NEW i \in 1..Len(s)
    PROVE  /\ SubSeq(s, i + 1, Len(s)) \in Seq(S)
           /\ ToSet(SubSeq(s, i + 1, Len(s))) \subseteq ToSet(s)
           /\ IsInjective(s) => /\ IsInjective(SubSeq(s, i + 1, Len(s)))
                                /\ s[i] \notin ToSet(SubSeq(s, i + 1, Len(s)))
<1> DEFINE r == SubSeq(s, i + 1, Len(s))
<1>1. Len(s) \in Nat /\ DOMAIN s = 1..Len(s) /\ \A j \in 1..Len(s) : s[j] \in S
  BY LenProperties, ElementOfSeq
<1>2. \A j \in (i + 1)..Len(s) : s[j] \in S
  BY <1>1
<1>3. r \in Seq(S) /\ Len(r) = Len(s) - i /\ \A j \in 1..(Len(s) - i) : r[j] = s[i + j]
  <2>1. r \in Seq(S) /\ Len(r) = (IF i + 1 <= Len(s) THEN Len(s) - (i + 1) + 1 ELSE 0)
        /\ \A j \in 1..(Len(s) - (i + 1) + 1) : r[j] = s[i + 1 + j - 1]
    BY <1>1, <1>2, SubSeqProperties
  <2> HIDE DEF r
  <2>2. i \in Int /\ 1 <= i /\ i <= Len(s) /\ Len(s) \in Int
    BY <1>1
  <2>3. Len(r) = Len(s) - i
    BY <2>1, <2>2
  <2>4. ASSUME NEW j \in 1..(Len(s) - i) PROVE r[j] = s[i + j]
    <3>1. j \in 1..(Len(s) - (i + 1) + 1) /\ i + 1 + j - 1 = i + j
      BY <2>2
    <3> QED BY <2>1, <3>1
  <2> QED BY <2>1, <2>3, <2>4
<1> HIDE DEF r
<1>4. Len(r) = Len(s) - i
  BY <1>3
<1>5. DOMAIN r = 1..(Len(s) - i)
  BY <1>3, <1>4, LenProperties
<1>6. \A j \in 1..(Len(s) - i) : r[j] = s[i + j] /\ i + j \in DOMAIN s /\ i + j # i
  BY <1>1, <1>3
<1>7. ASSUME IsInjective(s) PROVE IsInjective(r) /\ s[i] \notin ToSet(r)
  <2>1. ASSUME NEW j \in DOMAIN r, NEW k \in DOMAIN r, r[j] = r[k] PROVE j = k
    <3>1. s[i + j] = s[i + k] /\ i + j \in DOMAIN s /\ i + k \in DOMAIN s
      BY <1>5, <1>6, <2>1
    <3>2. i + j = i + k
      BY <3>1, <1>7 DEF IsInjective
    <3> QED BY <3>2, <1>1, <1>5
  <2>2. ASSUME NEW j \in DOMAIN r, s[i] = r[j] PROVE FALSE
    <3>1. s[i + j] = s[i] /\ i + j \in DOMAIN s /\ i \in DOMAIN s /\ i + j # i
      BY <1>1, <1>5, <1>6, <2>2
    <3> QED BY <3>1, <1>7 DEF IsInjective
  <2> QED BY <2>1, <2>2 DEF IsInjective, ToSet
<1>8. ToSet(r) \subseteq ToSet(s)
  BY <1>5, <1>6 DEF ToSet
<1> QED BY <1>3, <1>7, <1>8 DEF r

-----------------------------------------------------------------------------
(* The inductive invariant.                                                *)

\* A callback runs inside a pass, or it is one the phase names.
RunsInPass == running # NoFd => phase \in Stream

\* The loop does not wait once it has been stopped.
WaitsUnstopped == phase = "select" => ~exit_now

PInv ==
    /\ TypeOK
    /\ WriteListedOnce
    /\ WrittenOncePerPass
    /\ RunsInPass
    /\ WaitsUnstopped

LEMMA InitialListsType ==
    InitialLists \in [Stream -> Seq(Fd)] /\ IsInjective(InitialLists["write"])
<1>1. \A s \in Stream : InitialLists[s] \in Seq(Fd)
  BY ListenersAssumption, EmptySeq DEF InitialLists
<1>2. InitialLists["write"] = <<>>
  BY DEF InitialLists, Stream
<1>3. IsInjective(<<>>)
  BY DEF IsInjective
<1> QED BY <1>1, <1>2, <1>3 DEF InitialLists

LEMMA NoSetsType == NoSets \in [Stream -> SUBSET Fd]
BY DEF NoSets

LEMMA InitPInv == Init => PInv
<1> SUFFICES ASSUME Init PROVE PInv
  OBVIOUS
<1>1. TypeOK
  BY InitialListsType, NoSetsType, EmptySeq DEF Init, TypeOK, Phase
<1>2. WriteListedOnce
  BY InitialListsType DEF Init, WriteListedOnce
<1>3. WrittenOncePerPass /\ RunsInPass /\ WaitsUnstopped
  BY DEF Init, WrittenOncePerPass, RunsInPass, WaitsUnstopped
<1> QED BY <1>1, <1>2, <1>3 DEF PInv

\* A pass begins with a copy of the stream's list.
LEMMA BeginPassInv ==
    ASSUME PInv, NEW s \in Stream, BeginPass(s), running = NoFd, UNCHANGED <<fds, running>>
    PROVE  todo' \in Seq(Fd) /\ phase' \in Phase /\ WrittenOncePerPass' /\ RunsInPass'
<1>1. todo' = fds[s] /\ phase' = s /\ todo' \in Seq(Fd)
  BY DEF PInv, TypeOK, BeginPass
<1>2. phase' \in Phase
  BY <1>1 DEF Phase
<1>3. ASSUME s = "write" PROVE IsInjective(todo') /\ NoFd \notin ToSet(todo')
  <2>1. IsInjective(todo')
    BY <1>1, <1>3 DEF PInv, WriteListedOnce
  <2>2. \A i \in DOMAIN todo' : todo'[i] \in Fd
    BY <1>1, LenProperties, ElementOfSeq
  <2> QED BY <2>1, <2>2, NoFdAssumption DEF ToSet
<1> QED BY <1>1, <1>2, <1>3 DEF WrittenOncePerPass, RunsInPass

LEMMA LoopTopInv == PInv /\ LoopTop => PInv'
BY DEF PInv, LoopTop, TypeOK, Phase, Ended, Stream, WriteListedOnce, WrittenOncePerPass,
       RunsInPass, WaitsUnstopped

LEMMA PopulateInv == PInv /\ Populate => PInv'
<1> SUFFICES ASSUME PInv, Populate PROVE PInv'
  OBVIOUS
<1>1. selected' \in [Stream -> SUBSET Fd]
  <2>1. ASSUME NEW s \in Stream PROVE ToSet(fds[s]) \in SUBSET Fd
    <3>1. fds[s] \in Seq(Fd)
      BY DEF PInv, TypeOK
    <3>2. \A i \in DOMAIN fds[s] : fds[s][i] \in Fd
      BY <3>1, LenProperties, ElementOfSeq
    <3> QED BY <3>2 DEF ToSet
  <2> QED BY <2>1 DEF Populate
<1>2. exit_now' \in BOOLEAN /\ phase' \in {"top", "select"} /\ null_sets' \in SUBSET Stream
  BY DEF Populate
<1>3. phase' = "select" => ~exit_now'
  BY DEF Populate
<1>4. phase = "populate" /\ UNCHANGED <<fds, todo, running, exit_request>>
  BY DEF Populate
<1>5. TypeOK'
  BY <1>1, <1>2, <1>4 DEF PInv, TypeOK, Phase
<1> QED BY <1>2, <1>3, <1>4, <1>5 DEF PInv, WriteListedOnce, WrittenOncePerPass, RunsInPass,
                                       WaitsUnstopped, Stream

LEMMA PrepareStoppedInv == PInv /\ PrepareStopped => PInv'
BY DEF PInv, PrepareStopped, TypeOK, Phase, Ended, Stream, WriteListedOnce, WrittenOncePerPass,
       RunsInPass, WaitsUnstopped

LEMMA SelectReadyInv == PInv /\ SelectReady => PInv'
<1> SUFFICES ASSUME PInv, SelectReady PROVE PInv'
  OBVIOUS
<1>1. /\ BeginPass("error") /\ "error" \in Stream /\ phase = "select"
      /\ selected' \in [Stream -> SUBSET Fd]
      /\ UNCHANGED <<fds, null_sets, running, exit_request, exit_now>>
  BY DEF SelectReady, Stream
<1>2. running = NoFd
  BY <1>1 DEF PInv, RunsInPass, Stream
<1>3. todo' \in Seq(Fd) /\ phase' \in Phase /\ WrittenOncePerPass' /\ RunsInPass'
  BY <1>1, <1>2, BeginPassInv
<1>4. TypeOK'
  BY <1>1, <1>3 DEF PInv, TypeOK
<1>5. WriteListedOnce' /\ WaitsUnstopped'
  BY <1>1 DEF PInv, WriteListedOnce, WaitsUnstopped, BeginPass
<1> QED BY <1>3, <1>4, <1>5 DEF PInv

\* The round ends and the loop goes to a phase that is not a pass.
LEMMA RoundOverInv ==
    ASSUME PInv, RoundOver, UNCHANGED fds, running' \in {running, NoFd},
           exit_request' \in BOOLEAN, exit_now' \in BOOLEAN,
           phase' \in {"timeout", "top", "killed"}, phase \in Stream => running' = NoFd
    PROVE  PInv'
<1>1. running' = NoFd
  BY DEF PInv, RunsInPass
<1>2. TypeOK'
  BY <1>1, NoSetsType, EmptySeq DEF PInv, TypeOK, RoundOver, Phase, Ended
<1> QED BY <1>1, <1>2 DEF PInv, WriteListedOnce, WrittenOncePerPass, RunsInPass, WaitsUnstopped

LEMMA StartCallbackInv == PInv /\ StartCallback => PInv'
<1> SUFFICES ASSUME PInv, StartCallback PROVE PInv'
  OBVIOUS
<1>1. todo \in Seq(Fd) /\ DOMAIN todo = 1..Len(todo) /\ Len(todo) \in Nat
  BY LenProperties DEF PInv, TypeOK
<1>2. Due \subseteq Nat /\ Due # {} /\ Due \subseteq 1..Len(todo)
  BY <1>1 DEF Due, StartCallback
<1>3. Min(Due) \in 1..Len(todo)
  BY <1>2, MinInSet
<1> DEFINE m == Min(Due)
<1> HIDE DEF m
<1>4. /\ running' = todo[m]
      /\ todo' = SubSeq(todo, m + 1, Len(todo))
      /\ phase \in Stream
      /\ UNCHANGED <<fds, selected, null_sets, phase, exit_request, exit_now>>
  BY DEF StartCallback, InPass, m
<1>5. /\ todo' \in Seq(Fd)
      /\ IsInjective(todo) => IsInjective(todo') /\ running' \notin ToSet(todo')
  BY <1>1, <1>3, <1>4, RestDistinct DEF m
<1>6. running' \in Fd
  BY <1>1, <1>3, <1>4, ElementOfSeq DEF m
<1>7. TypeOK'
  BY <1>4, <1>5, <1>6 DEF PInv, TypeOK
<1> QED BY <1>4, <1>5, <1>7 DEF PInv, WriteListedOnce, WrittenOncePerPass, RunsInPass,
                                WaitsUnstopped

LEMMA ReadNullSetInv == PInv /\ ReadNullSet => PInv'
BY DEF PInv, ReadNullSet, InPass, TypeOK, Phase, Ended, Stream, WriteListedOnce,
       WrittenOncePerPass, RunsInPass, WaitsUnstopped

LEMMA EndPassInv == PInv /\ EndPass => PInv'
<1> SUFFICES ASSUME PInv, EndPass PROVE PInv'
  OBVIOUS
<1>1. running = NoFd /\ phase \in Stream /\ UNCHANGED <<fds, running, exit_request, exit_now>>
  BY DEF EndPass, InPass
<1>2. exit_request' \in BOOLEAN /\ exit_now' \in BOOLEAN
  BY <1>1 DEF PInv, TypeOK
<1>3. CASE phase = "read"
  <2>1. RoundOver /\ phase' = "top"
    BY <1>3 DEF EndPass
  <2> QED BY <1>1, <1>2, <2>1, RoundOverInv
<1>4. CASE phase # "read"
  <2> DEFINE s == IF phase = "error" THEN "write" ELSE "read"
  <2>1. BeginPass(s) /\ s \in Stream /\ UNCHANGED <<selected, null_sets>>
    BY <1>4 DEF EndPass, Stream
  <2>2. todo' \in Seq(Fd) /\ phase' \in Phase /\ WrittenOncePerPass' /\ RunsInPass'
    BY <1>1, <2>1, BeginPassInv
  <2>3. TypeOK'
    BY <1>1, <2>1, <2>2 DEF PInv, TypeOK
  <2>4. WriteListedOnce' /\ WaitsUnstopped'
    BY <1>1, <2>1 DEF PInv, WriteListedOnce, WaitsUnstopped, BeginPass
  <2> QED BY <2>2, <2>3, <2>4 DEF PInv
<1> QED BY <1>3, <1>4

\* A step of a callback that leaves well-formed lists.
LEMMA CallbackStepInv ==
    ASSUME PInv, InCallback, Return \/ Continue,
           fds' \in [Stream -> Seq(Fd)], IsInjective(fds'["write"]),
           exit_request' \in BOOLEAN, exit_now' \in BOOLEAN,
           UNCHANGED <<selected, null_sets, todo>>
    PROVE  PInv'
<1>1. phase \in Stream \cup {"prepare", "timeout"}
  BY DEF PInv, RunsInPass, InCallback
<1>2. CASE Return
  <2>1. running' = NoFd /\ phase' \in Stream \cup {"populate", "top"}
    BY <1>1, <1>2 DEF Return, Stream
  <2>2. phase' = "write" => phase = "write"
    BY <1>1, <1>2 DEF Return, Stream
  <2>3. todo' = todo /\ NoFd \notin ToSet(todo)
    <3>1. \A i \in DOMAIN todo : todo[i] \in Fd
      BY LenProperties, ElementOfSeq DEF PInv, TypeOK
    <3> QED BY <3>1, NoFdAssumption DEF ToSet
  <2>4. TypeOK'
    BY <2>1 DEF PInv, TypeOK, Phase
  <2>5. WrittenOncePerPass'
    BY <2>1, <2>2, <2>3 DEF PInv, WrittenOncePerPass
  <2> QED BY <2>1, <2>4, <2>5 DEF PInv, WriteListedOnce, RunsInPass, WaitsUnstopped, Stream
<1>3. CASE Continue
  <2>1. UNCHANGED <<running, phase, selected, null_sets, todo>>
    BY <1>3 DEF Continue
  <2>2. TypeOK'
    BY <2>1 DEF PInv, TypeOK
  <2> QED BY <1>1, <2>1, <2>2 DEF PInv, WriteListedOnce, WrittenOncePerPass, RunsInPass,
                              WaitsUnstopped, Stream
<1> QED BY <1>2, <1>3

\* Adding a descriptor, for any stream, leaves well-formed lists.
LEMMA MonitoredLists ==
    ASSUME PInv, NEW s \in Stream, NEW f \in Fd
    PROVE  /\ Monitored(fds, s, f) \in [Stream -> Seq(Fd)]
           /\ IsInjective(Monitored(fds, s, f)["write"])
<1>1. fds \in [Stream -> Seq(Fd)] /\ IsInjective(fds["write"]) /\ "write" \in Stream
  BY DEF PInv, TypeOK, WriteListedOnce, Stream
<1>2. CASE Monitored(fds, s, f) = fds
  BY <1>1, <1>2
<1>3. CASE Monitored(fds, s, f) # fds
  <2>1. /\ Monitored(fds, s, f) = [fds EXCEPT ![s] = Append(fds[s], f)]
        /\ s = "write" => f \notin ToSet(fds[s])
    BY <1>3 DEF Monitored, Added
  <2>2. fds[s] \in Seq(Fd)
    BY <1>1
  <2>3. /\ Append(fds[s], f) \in Seq(Fd)
        /\ IsInjective(fds[s]) /\ f \notin ToSet(fds[s]) => IsInjective(Append(fds[s], f))
    BY <2>2, AppendDistinct
  <2>4. CASE s = "write"
    BY <1>1, <2>1, <2>3, <2>4
  <2>5. CASE s # "write"
    BY <1>1, <2>1, <2>3, <2>5
  <2> QED BY <2>4, <2>5
<1> QED BY <1>2, <1>3

\* So does removing one from a stream, or from all of them.
LEMMA UnmonitoredLists ==
    ASSUME PInv, NEW s \in Stream, NEW f
    PROVE  /\ Unmonitored(fds, s, f) \in [Stream -> Seq(Fd)]
           /\ IsInjective(Unmonitored(fds, s, f)["write"])
<1>1. fds \in [Stream -> Seq(Fd)] /\ IsInjective(fds["write"]) /\ "write" \in Stream
  BY DEF PInv, TypeOK, WriteListedOnce, Stream
<1>2. /\ RemoveFirst(fds[s], f) \in Seq(Fd)
      /\ IsInjective(fds[s]) => IsInjective(RemoveFirst(fds[s], f))
  BY <1>1, RemoveFirstDistinct
<1>3. Unmonitored(fds, s, f) = [fds EXCEPT ![s] = RemoveFirst(fds[s], f)]
  BY DEF Unmonitored
<1>4. CASE s = "write"
  BY <1>1, <1>2, <1>3, <1>4
<1>5. CASE s # "write"
  BY <1>1, <1>2, <1>3, <1>5
<1> QED BY <1>4, <1>5

LEMMA ClosedLists ==
    ASSUME PInv, NEW f
    PROVE  LET lists == [s \in Stream |-> RemoveFirst(fds[s], f)]
           IN  lists \in [Stream -> Seq(Fd)] /\ IsInjective(lists["write"])
<1> DEFINE lists == [s \in Stream |-> RemoveFirst(fds[s], f)]
<1>1. fds \in [Stream -> Seq(Fd)] /\ IsInjective(fds["write"]) /\ "write" \in Stream
  BY DEF PInv, TypeOK, WriteListedOnce, Stream
<1>2. ASSUME NEW s \in Stream PROVE RemoveFirst(fds[s], f) \in Seq(Fd)
  <2>1. fds[s] \in Seq(Fd)
    BY <1>1
  <2> QED BY <2>1, RemoveFirstDistinct
<1>3. lists \in [Stream -> Seq(Fd)]
  BY <1>2
<1>4. IsInjective(RemoveFirst(fds["write"], f))
  <2>1. fds["write"] \in Seq(Fd)
    BY <1>1
  <2> QED BY <1>1, <2>1, RemoveFirstDistinct
<1>5. lists["write"] = RemoveFirst(fds["write"], f)
  BY <1>1
<1>6. IsInjective(lists["write"])
  BY <1>4, <1>5
<1> QED BY <1>3, <1>6

LEMMA CallbackInv == PInv /\ Callback => PInv'
<1> SUFFICES ASSUME PInv, Callback PROVE PInv'
  OBVIOUS
<1>1. Return \/ Continue
  BY DEF Callback
<1>2. exit_request \in BOOLEAN /\ exit_now \in BOOLEAN /\ Used \subseteq Stream
  BY UsedAssumption DEF PInv, TypeOK
<1>3. ASSUME NEW lists, CallbackLeaves(lists), lists \in [Stream -> Seq(Fd)],
             IsInjective(lists["write"])
      PROVE  PInv'
  BY <1>1, <1>2, <1>3, CallbackStepInv DEF CallbackLeaves
<1>4. CASE \E s \in Used, f \in Fd : CallbackMonitors(s, f)
  BY <1>2, <1>3, <1>4, MonitoredLists DEF CallbackMonitors
<1>5. CASE \E s \in Used, f \in Fd : CallbackRemoves(s, f)
  BY <1>2, <1>3, <1>5, UnmonitoredLists DEF CallbackRemoves
<1>6. CASE \E f \in Fd : CallbackCloses(f)
  BY <1>3, <1>6, ClosedLists DEF CallbackCloses
<1>7. fds \in [Stream -> Seq(Fd)] /\ IsInjective(fds["write"])
  BY DEF PInv, TypeOK, WriteListedOnce
<1>8. CASE CallbackStops
  BY <1>1, <1>7, <1>8, CallbackStepInv DEF CallbackStops
<1>9. CASE CallbackRuns
  BY <1>3, <1>7, <1>9 DEF CallbackRuns
<1> QED BY <1>4, <1>5, <1>6, <1>8, <1>9 DEF Callback

LEMMA SignalInv == PInv /\ Signal => PInv'
<1> SUFFICES ASSUME PInv, Signal PROVE PInv'
  OBVIOUS
<1>1. CASE UNCHANGED <<exit_now, phase, selected, null_sets, todo>>
  <2>1. UNCHANGED <<fds, running>> /\ exit_request' = TRUE
    BY DEF Signal
  <2>2. TypeOK'
    BY <1>1, <2>1 DEF PInv, TypeOK
  <2> QED BY <1>1, <2>1, <2>2 DEF PInv, WriteListedOnce, WrittenOncePerPass, RunsInPass,
                                  WaitsUnstopped
<1>2. CASE phase = "select" /\ exit_now' = TRUE /\ phase' = "top" /\ RoundOver
  <2>1. UNCHANGED <<fds, running>> /\ exit_request' = TRUE /\ phase \notin Stream
    BY <1>2 DEF Signal, Stream
  <2> QED BY <1>2, <2>1, RoundOverInv
<1> QED BY <1>1, <1>2 DEF Signal

LEMMA KillInv == PInv /\ Kill => PInv'
BY RoundOverInv DEF Kill, PInv, TypeOK

LEMMA StartInv == PInv /\ Start => PInv'
<1> SUFFICES ASSUME PInv, Start PROVE PInv'
  OBVIOUS
<1>1. TypeOK'
  BY InitialListsType, NoSetsType, EmptySeq DEF Start, TypeOK, Phase
<1>2. WriteListedOnce'
  BY InitialListsType DEF Start, WriteListedOnce
<1>3. WrittenOncePerPass' /\ RunsInPass' /\ WaitsUnstopped'
  BY DEF Start, WrittenOncePerPass, RunsInPass, WaitsUnstopped
<1> QED BY <1>1, <1>2, <1>3 DEF PInv

LEMMA LoopInv == PInv /\ Loop => PInv'
<1> SUFFICES ASSUME PInv, Loop PROVE PInv'
  OBVIOUS
<1>1. CASE SelectTimeout
  BY <1>1, RoundOverInv DEF SelectTimeout, PInv, TypeOK, Stream
<1>2. CASE SelectFails
  BY <1>2, RoundOverInv DEF SelectFails, PInv, TypeOK, Stream
<1> QED BY <1>1, <1>2, LoopTopInv, PopulateInv, PrepareStoppedInv, SelectReadyInv,
           StartCallbackInv, ReadNullSetInv, EndPassInv DEF Loop

\* Every step of the loop, of a callback or of the environment keeps the invariant.
LEMMA StepPInv == PInv /\ [Next]_pcomm_vars => PInv'
<1> SUFFICES ASSUME PInv, [Next]_pcomm_vars PROVE PInv'
  OBVIOUS
<1>1. CASE UNCHANGED pcomm_vars
  BY <1>1 DEF pcomm_vars, PInv, TypeOK, WriteListedOnce, WrittenOncePerPass, RunsInPass,
              WaitsUnstopped
<1> QED BY <1>1, LoopInv, CallbackInv, SignalInv, KillInv, StartInv DEF Next

\* Every reachable state satisfies the invariant.
THEOREM PcommInvariance == Spec => []PInv
BY InitPInv, StepPInv, PTL DEF Spec

-----------------------------------------------------------------------------
(* The theorems.                                                           *)

\* The lists, sets and flags of the loop are well-formed whatever callbacks do.
THEOREM PcommTypeCorrect == Spec => []TypeOK
<1>1. PInv => TypeOK
  BY DEF PInv
<1> QED BY PcommInvariance, <1>1, PTL

\* _pcomm_add_output_fd never lists a writer twice.
THEOREM WritersListedOnce == Spec => []WriteListedOnce
<1>1. PInv => WriteListedOnce
  BY DEF PInv
<1> QED BY PcommInvariance, <1>1, PTL

\* No writer is called back twice in one pass, though callbacks change the list.
THEOREM WritersCalledOnce == Spec => []WrittenOncePerPass
<1>1. PInv => WrittenOncePerPass
  BY DEF PInv
<1> QED BY PcommInvariance, <1>1, PTL

\* After pcomm_stop(immediately) no callback begins.
THEOREM StoppedIsStopped == Spec => NoCallbackAfterStop
<1> DEFINE A == exit_now /\ exit_now' /\ InCallback' => running' = running /\ phase' = phase
<1>1. PInv /\ [Next]_pcomm_vars => [A]_pcomm_vars
  <2> SUFFICES ASSUME PInv, [Next]_pcomm_vars, exit_now, exit_now', InCallback'
               PROVE  UNCHANGED pcomm_vars \/ (running' = running /\ phase' = phase)
    OBVIOUS
  <2>1. (running # NoFd => phase \in Stream) /\ phase # "select"
    BY DEF PInv, RunsInPass, WaitsUnstopped
  <2>2. phase' \in {"prepare", "timeout"} \/ running' # NoFd
    BY DEF InCallback
  <2>3. CASE Loop
    BY <2>1, <2>2, <2>3 DEF Loop, LoopTop, Populate, PrepareStopped, SelectReady, SelectTimeout,
                      SelectFails, StartCallback, ReadNullSet, EndPass, InPass, BeginPass, Stream
  <2>4. CASE Callback
    <3>1. CASE Return
      <4>1. running' = NoFd /\ phase' \notin {"prepare", "timeout"}
        BY <3>1 DEF Return
      <4> QED BY <4>1, <2>2
    <3>2. CASE Continue
      BY <3>2 DEF Continue
    <3> QED BY <2>4, <3>1, <3>2 DEF Callback
  <2>5. CASE Signal
    BY <2>1, <2>5 DEF Signal
  <2>6. CASE Kill
    BY <2>2, <2>6 DEF Kill
  <2>7. CASE Start
    BY <2>7 DEF Start
  <2> QED BY <2>3, <2>4, <2>5, <2>6, <2>7 DEF Next
<1> QED BY PcommInvariance, <1>1, PTL DEF Spec, NoCallbackAfterStop
==============================================================================
