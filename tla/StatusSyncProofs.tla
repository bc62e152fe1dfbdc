--------------------------- MODULE StatusSyncProofs ---------------------------
(***************************************************************************)
(* Proofs about StatusSync, for any number of requests, changes and        *)
(* sessions and any capacity of the outbox.                                *)
(***************************************************************************)
EXTENDS StatusSync, SequenceTheorems, TLAPS

\* The status the manager shows once everything that is on its way has arrived.
Latest ==
    IF turns # <<>> THEN got[turns[Len(turns)]]
    ELSE IF pipe # <<>> THEN pipe[Len(pipe)] ELSE shown

\* What TypeOK and LastIsShown need to be inductive: a publisher has its turn once, has
\* read a status by then, and a stream that is down has left nothing behind.
Turns == \A i, j \in 1 .. Len(turns) : turns[i] = turns[j] => i = j
HasRead == \A p \in Publishers : pc[p] \in {"read", "send"} => got[p] # None
DownIsIdle == ~up => pipe = <<>> /\ turns = <<>> /\ pc = [p \in Publishers |-> "off"]
Remembered == up /\ ~overtaken => last = Payload(Latest)
StatusInv == TypeOK /\ Turns /\ HasRead /\ DownIsIdle /\ Remembered

LEMMA RemoveAtFacts ==
    ASSUME NEW S, NEW s \in Seq(S), NEW i \in 1 .. Len(s)
    PROVE  /\ RemoveAt(s, i) \in Seq(S) /\ Len(RemoveAt(s, i)) = Len(s) - 1
           /\ \A k \in 1 .. Len(s) - 1 : RemoveAt(s, i)[k] = IF k < i THEN s[k] ELSE s[k + 1]
<1> DEFINE a == SubSeq(s, 1, i - 1)
           b == SubSeq(s, i + 1, Len(s))
<1>1. a \in Seq(S) /\ Len(a) = i - 1 /\ \A k \in 1 .. i - 1 : a[k] = s[k]
  BY SubSeqProperties
<1>2. b \in Seq(S) /\ Len(b) = Len(s) - i /\ \A k \in 1 .. Len(s) - i : b[k] = s[k + i]
  BY SubSeqProperties
<1>3. RemoveAt(s, i) = a \o b
  BY DEF RemoveAt
<1> HIDE DEF a, b
<1>4. /\ a \o b \in Seq(S) /\ Len(a \o b) = Len(a) + Len(b)
      /\ \A k \in 1 .. Len(a) + Len(b) : (a \o b)[k] = IF k <= Len(a) THEN a[k] ELSE b[k - Len(a)]
  BY <1>1, <1>2, ConcatProperties
<1>5. Len(a) + Len(b) = Len(s) - 1 /\ Len(s) \in Nat
  BY <1>1, <1>2
<1>6. ASSUME NEW k \in 1 .. Len(s) - 1 PROVE (a \o b)[k] = IF k < i THEN s[k] ELSE s[k + 1]
  <2>1. (a \o b)[k] = IF k <= i - 1 THEN a[k] ELSE b[k - (i - 1)]
    BY <1>1, <1>4, <1>5
  <2>2. CASE k < i
    BY <1>1, <2>1, <2>2
  <2>3. CASE k >= i
    <3>1. k - (i - 1) \in 1 .. Len(s) - i /\ (k - (i - 1)) + i = k + 1
      BY <1>5, <2>3
    <3> QED
      BY <1>2, <2>1, <2>3, <3>1
  <2> QED
    BY <1>5, <2>2, <2>3
<1> QED
  BY <1>3, <1>4, <1>5, <1>6

\* The publishers that have a turn are those in the middle of a send.
LEMMA TurnsSend ==
    ASSUME turns \in Seq(Publishers)
    PROVE  ToSet(turns) = {p \in Publishers : pc[p] = "send"} <=>
            /\ \A i \in 1 .. Len(turns) : pc[turns[i]] = "send"
            /\ \A p \in Publishers : pc[p] = "send" => \E i \in 1 .. Len(turns) : turns[i] = p
<1>1. DOMAIN turns = 1 .. Len(turns) /\ \A i \in 1 .. Len(turns) : turns[i] \in Publishers
  OBVIOUS
<1> QED
  BY <1>1 DEF ToSet

LEMMA TurnsSendNext ==
    ASSUME turns' \in Seq(Publishers)
    PROVE  ToSet(turns)' = {p \in Publishers : pc[p] = "send"}' <=>
            /\ \A i \in 1 .. Len(turns') : pc'[turns'[i]] = "send"
            /\ \A p \in Publishers : pc'[p] = "send" => \E i \in 1 .. Len(turns') : turns'[i] = p
<1>1. DOMAIN turns' = 1 .. Len(turns') /\ \A i \in 1 .. Len(turns') : turns'[i] \in Publishers
  OBVIOUS
<1> QED
  BY <1>1 DEF ToSet

LEMMA StatusInit == StatusAssumption /\ Init => StatusInv
<1> SUFFICES ASSUME StatusAssumption, Init PROVE StatusInv
  OBVIOUS
<1>1. turns = <<>> /\ turns \in Seq(Publishers) /\ Len(turns) = 0
  BY DEF Init
<1>2. ToSet(turns) = {p \in Publishers : pc[p] = "send"}
  BY <1>1, TurnsSend DEF Init
<1>3. /\ 1 \in Statuses /\ 0 \in 0 .. MaxSessions
      /\ <<>> \in Seq(Statuses) /\ Len(<<>>) <= PipeCap
  BY DEF StatusAssumption, Statuses
<1>4. TypeOK
  BY <1>1, <1>2, <1>3 DEF Init, TypeOK, None
<1> QED
  BY <1>4 DEF Init, StatusInv, Turns, HasRead, DownIsIdle, Remembered

LEMMA StatusNext ==
    ASSUME StatusAssumption, StatusInv, [Next]_vars
    PROVE  StatusInv'
<1> USE DEF StatusInv
<1>0. /\ turns \in Seq(Publishers) /\ Len(turns) \in Nat
      /\ \A i \in 1 .. Len(turns) : turns[i] \in Publishers /\ pc[turns[i]] = "send"
      /\ \A p \in Publishers : pc[p] = "send" => \E i \in 1 .. Len(turns) : turns[i] = p
  BY TurnsSend DEF TypeOK
<1>1. CASE Change
  BY <1>1 DEF Change, TypeOK, Turns, HasRead, DownIsIdle, Remembered, Latest, Statuses, ToSet, StatusAssumption
<1>2. CASE Open
  BY <1>2 DEF Open, TypeOK, Turns, HasRead, DownIsIdle, Remembered, Latest, Statuses, ToSet, StatusAssumption, Publishers, Payload, None
<1>3. CASE Close
  <2>1. PICK n \in 0 .. Len(pipe) : stray' = stray \o SubSeq(pipe, 1, n)
    BY <1>3 DEF Close
  <2>2. stray' \in Seq(Statuses)
    BY <2>1 DEF TypeOK
  <2>3. ToSet(turns)' = {p \in Publishers : pc[p] = "send"}'
    BY <1>3, TurnsSendNext DEF Close
  <2>4. turns' \in Seq(Publishers) /\ pipe' \in Seq(Statuses) /\ Len(pipe') <= PipeCap
    BY <1>3 DEF Close, StatusAssumption
  <2>5. TypeOK'
    BY <1>3, <2>2, <2>3, <2>4 DEF Close, TypeOK
  <2> QED
    BY <1>3, <2>5 DEF Close, Turns, HasRead, DownIsIdle, Remembered
<1>4. CASE Tick \/ \E p \in Requests : Ask(p)
  <2>1. PICK p \in Publishers : pc[p] = "off" /\ pc' = [pc EXCEPT ![p] = "asked"]
    BY <1>4 DEF Tick, Ask, Publishers
  <2>2. up /\ UNCHANGED <<value, session, up, got, last, pipe, stray, shown, turns, overtaken>>
    BY <1>4 DEF Tick, Ask
  <2>3. asked' \in [Requests -> Statuses \cup {None}]
    BY <1>4 DEF Tick, Ask, TypeOK
  <2>4. TypeOK'
    BY <2>1, <2>2, <2>3 DEF TypeOK, ToSet
  <2> QED
    BY <1>0, <2>1, <2>2, <2>4 DEF TypeOK, Turns, HasRead, DownIsIdle, Remembered, Latest
<1>5. ASSUME NEW p \in Publishers, Read(p) PROVE StatusInv'
  <2>1. up
    BY <1>5 DEF Read, DownIsIdle
  <2>2. TypeOK'
    BY <1>5 DEF Read, TypeOK, ToSet
  <2>3. Latest' = Latest
    BY <1>0, <1>5 DEF Read, Latest, TypeOK
  <2> QED
    BY <1>5, <2>1, <2>2, <2>3 DEF Read, TypeOK, Turns, HasRead, DownIsIdle, Remembered, Statuses, None
<1>6. ASSUME NEW p \in Publishers, Swap(p) PROVE StatusInv'
  <2>1. up /\ Payload(got[p]) \in {"none", "odd", "even"}
    BY <1>6 DEF Swap, DownIsIdle, Payload
  <2>2. CASE p = Poller /\ last = Payload(got[p])
    <3>1. UNCHANGED turns /\ pc' = [pc EXCEPT ![p] = "off"] /\ got' = [got EXCEPT ![p] = None]
      BY <1>6, <2>2 DEF Swap, Idle
    <3>2. ToSet(turns)' = {q \in Publishers : pc[q] = "send"}'
      BY <1>0, <1>6, <3>1, TurnsSendNext DEF Swap, TypeOK
    <3>3. TypeOK'
      BY <1>6, <2>1, <3>1, <3>2 DEF Swap, TypeOK
    <3>4. Latest' = Latest
      BY <1>0, <1>6, <3>1 DEF Swap, Latest, TypeOK
    <3> QED
      BY <1>6, <2>1, <2>2, <3>1, <3>3, <3>4 DEF Swap, Idle, TypeOK, Turns, HasRead, DownIsIdle, Remembered
  <2>3. CASE ~(p = Poller /\ last = Payload(got[p]))
    <3>1. pc' = [pc EXCEPT ![p] = "send"] /\ turns' = Append(turns, p) /\ UNCHANGED got
      BY <1>6, <2>3 DEF Swap
    <3>2. /\ turns \in Seq(Publishers) /\ Len(turns) \in Nat /\ turns' \in Seq(Publishers)
          /\ Len(turns') = Len(turns) + 1
          /\ turns'[Len(turns) + 1] = p /\ \A i \in 1 .. Len(turns) : turns'[i] = turns[i]
      BY <3>1 DEF TypeOK
    <3>3. ToSet(turns)' = {q \in Publishers : pc[q] = "send"}'
      <4>1. ASSUME NEW q \in Publishers, pc'[q] = "send" PROVE \E i \in 1 .. Len(turns') : turns'[i] = q
        <5>1. CASE q = p
          BY <3>2, <5>1
        <5>2. CASE q # p
          BY <1>0, <3>1, <3>2, <4>1, <5>2 DEF TypeOK
        <5> QED
          BY <5>1, <5>2
      <4>2. ASSUME NEW i \in 1 .. Len(turns') PROVE pc'[turns'[i]] = "send"
        <5>1. CASE i = Len(turns) + 1
          BY <3>1, <3>2, <5>1 DEF TypeOK
        <5>2. CASE i \in 1 .. Len(turns)
          BY <1>0, <3>1, <3>2, <5>2 DEF TypeOK
        <5> QED
          BY <3>2, <5>1, <5>2
      <4> QED
        BY <3>2, <4>1, <4>2, TurnsSendNext
    <3>4. TypeOK'
      BY <1>6, <2>1, <3>1, <3>2, <3>3 DEF Swap, TypeOK
    <3>5. Turns'
      <4>1. \A i \in 1 .. Len(turns) : turns[i] # p
        BY <1>0, <1>6 DEF Swap
      <4>2. \A i \in 1 .. Len(turns') : i = Len(turns) + 1 \/ i \in 1 .. Len(turns)
        BY <3>2
      <4> QED
        BY <3>2, <4>1, <4>2 DEF Turns
    <3>6. Latest' = got[p]
      BY <3>1, <3>2 DEF Latest
    <3> QED
      BY <1>6, <2>1, <3>1, <3>4, <3>5, <3>6 DEF Swap, TypeOK, HasRead, DownIsIdle, Remembered
  <2> QED
    BY <2>2, <2>3
<1>7. ASSUME NEW p \in Publishers, Send(p) PROVE StatusInv'
  <2>1. up /\ got[p] \in Statuses
    BY <1>7 DEF Send, DownIsIdle, HasRead, TypeOK
  <2>2. /\ pipe \in Seq(Statuses) /\ Len(pipe) \in Nat /\ pipe' \in Seq(Statuses) /\ pipe' # <<>>
        /\ Len(pipe') = Len(pipe) + 1 /\ pipe'[Len(pipe')] = got[p] /\ Len(pipe') <= PipeCap
    BY <1>7, <2>1 DEF Send, TypeOK, StatusAssumption
  <2>3. PICK i \in 1 .. Len(turns) :
            turns[i] = p /\ overtaken' = (overtaken \/ i # 1) /\ turns' = RemoveAt(turns, i)
    BY <1>7 DEF Send, Leave
  <2>4. /\ turns \in Seq(Publishers) /\ Len(turns) \in Nat /\ turns' \in Seq(Publishers)
        /\ Len(turns') = Len(turns) - 1
        /\ \A k \in 1 .. Len(turns) - 1 : turns'[k] = IF k < i THEN turns[k] ELSE turns[k + 1]
    BY <1>0, <2>3, RemoveAtFacts
  <2>5. Turns'
    BY <2>4 DEF Turns
  <2>6. ToSet(turns)' = {q \in Publishers : pc[q] = "send"}'
    <3>1. pc' = [pc EXCEPT ![p] = "off"]
      BY <1>7 DEF Send, Idle
    <3>2. ASSUME NEW k \in 1 .. Len(turns') PROVE pc'[turns'[k]] = "send"
      <4>1. PICK j \in 1 .. Len(turns) : turns'[k] = turns[j] /\ j # i
        BY <2>4
      <4>2. turns[j] # p
        BY <2>3, <4>1 DEF Turns
      <4> QED
        BY <1>0, <3>1, <4>1, <4>2 DEF TypeOK
    <3>3. ASSUME NEW q \in Publishers, pc'[q] = "send" PROVE \E k \in 1 .. Len(turns') : turns'[k] = q
      <4>1. q # p /\ pc[q] = "send"
        BY <3>1, <3>3 DEF TypeOK
      <4>2. PICK j \in 1 .. Len(turns) : turns[j] = q
        BY <1>0, <4>1
      <4>3. CASE j < i
        BY <2>4, <4>2, <4>3
      <4>4. CASE j > i
        <5>1. j - 1 \in 1 .. Len(turns') /\ turns'[j - 1] = q
          BY <2>4, <4>2, <4>4
        <5> QED
          BY <5>1
      <4> QED
        BY <2>3, <4>1, <4>2, <4>3, <4>4
    <3> QED
      BY <2>4, <3>2, <3>3, TurnsSendNext
  <2>7. TypeOK'
    BY <1>7, <2>1, <2>2, <2>3, <2>4, <2>6 DEF Send, Idle, TypeOK, None
  <2>8. ASSUME ~overtaken' PROVE Latest' = Latest
    <3>0. i = 1
      BY <2>3, <2>8, Zenon
    <3>1. i = 1 /\ turns # <<>>
      BY <1>0, <3>0
    <3>2. CASE Len(turns) = 1
      <4>1. turns' = <<>> /\ Latest = got[p]
        BY <2>3, <2>4, <3>1, <3>2 DEF Latest
      <4> QED
        BY <2>2, <4>1 DEF Latest
    <3>3. CASE Len(turns) > 1
      <4>1. turns' # <<>> /\ turns'[Len(turns')] = turns[Len(turns)] /\ turns[Len(turns)] # p
        BY <2>3, <2>4, <3>1, <3>3 DEF Turns
      <4>2. turns[Len(turns)] \in Publishers
        BY <2>4, <3>3
      <4>3. got'[turns[Len(turns)]] = got[turns[Len(turns)]]
        BY <1>7, <4>1, <4>2 DEF Send, Idle, TypeOK
      <4> QED
        BY <3>1, <4>1, <4>3 DEF Latest
    <3> QED
      BY <2>4, <3>1, <3>2, <3>3
  <2> QED
    BY <1>7, <2>1, <2>3, <2>5, <2>7, <2>8 DEF Send, Idle, TypeOK, HasRead, DownIsIdle, Remembered
<1>8. CASE Show
  <2>1. up
    BY <1>8 DEF Show, DownIsIdle
  <2>2. /\ pipe \in Seq(Statuses) /\ pipe # <<>> /\ Len(pipe) \in Nat /\ Len(pipe) > 0
        /\ Head(pipe) = pipe[1] /\ pipe' \in Seq(Statuses) /\ Len(pipe') = Len(pipe) - 1
        /\ \A k \in 1 .. Len(pipe') : pipe'[k] = pipe[k + 1]
    BY <1>8 DEF Show, TypeOK
  <2>3. shown' \in Statuses /\ shown' = pipe[1]
    BY <1>8, <2>2 DEF Show
  <2>4. TypeOK'
    BY <1>8, <2>2, <2>3 DEF Show, TypeOK, StatusAssumption
  <2>5. Latest' = Latest
    <3>1. CASE turns # <<>>
      BY <1>8, <3>1 DEF Show, Latest
    <3>2. CASE turns = <<>> /\ Len(pipe) = 1
      BY <1>8, <2>2, <2>3, <3>2 DEF Show, Latest
    <3>3. CASE turns = <<>> /\ Len(pipe) > 1
      <4>1. pipe' # <<>> /\ pipe'[Len(pipe')] = pipe[Len(pipe)]
        BY <2>2, <3>3
      <4> QED
        BY <1>8, <2>2, <3>3, <4>1 DEF Show, Latest
    <3> QED
      BY <2>2, <3>1, <3>2, <3>3
  <2> QED
    BY <1>8, <2>1, <2>4, <2>5 DEF Show, Turns, HasRead, DownIsIdle, Remembered
<1>9. CASE ShowStray
  <2>1. stray \in Seq(Statuses) /\ stray # <<>> /\ Head(stray) \in Statuses /\ Tail(stray) \in Seq(Statuses)
    BY <1>9 DEF ShowStray, TypeOK
  <2>2. TypeOK'
    BY <1>9, <2>1 DEF ShowStray, TypeOK
  <2> QED
    BY <1>9, <2>2 DEF ShowStray, TypeOK, Turns, HasRead, DownIsIdle, Remembered
<1>10. CASE UNCHANGED vars
  BY <1>10 DEF vars, TypeOK, Turns, HasRead, DownIsIdle, Remembered, Latest, ToSet
<1> QED
  BY <1>1, <1>2, <1>3, <1>4, <1>5, <1>6, <1>7, <1>8, <1>9, <1>10 DEF Next, Publish

THEOREM StatusInvariant == Spec => []StatusInv
<1>1. Init => StatusInv
  BY StatusInit, StatusAssumption
<1>2. StatusInv /\ [Next]_vars => StatusInv'
  BY StatusNext, StatusAssumption
<1> QED
  BY <1>1, <1>2, PTL DEF Spec

\* Type correctness: in particular the outbox keeps to its capacity, and exactly the
\* publishers between the swap and the send have a turn (associate/handlers.go:99-113).
THEOREM StatusTypes == Spec => []TypeOK
<1>1. StatusInv => TypeOK
  BY DEF StatusInv
<1> QED
  BY <1>1, StatusInvariant, PTL

\* The poller never drops a payload that the manager does not have, unless a status
\* was overtaken between the lock and the outbox (associate/handlers.go:99-113).
THEOREM StatusLast == Spec => []LastIsShown
<1>1. StatusInv => LastIsShown
  BY DEF StatusInv, Remembered, Latest, LastIsShown
<1> QED
  BY <1>1, StatusInvariant, PTL
===============================================================================
