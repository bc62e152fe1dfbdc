------------------------ MODULE AssociateSessionProofs ------------------------
(***************************************************************************)
(* Proofs about AssociateSession, for any sessions, jobs and capacities.   *)
(***************************************************************************)
EXTENDS AssociateSession, TLAPS

LEMMA PostType ==
    ASSUME TypeOK, SessionAssumption, NEW s \in Sessions, NEW m \in Messages, Post(s, m)
    PROVE  outbox' \in [Sessions -> Seq(Messages)] /\ \A t \in Sessions : Len(outbox'[t]) <= OutCap
<1>1. CASE UNCHANGED outbox
  BY <1>1 DEF TypeOK
<1>2. CASE Len(outbox[s]) < OutCap /\ outbox' = [outbox EXCEPT ![s] = Append(@, m)]
  <2>1. outbox[s] \in Seq(Messages) /\ Len(outbox[s]) \in Nat /\ OutCap \in Nat
    BY DEF TypeOK, SessionAssumption
  <2>2. Append(outbox[s], m) \in Seq(Messages) /\ Len(Append(outbox[s], m)) = Len(outbox[s]) + 1
    BY <2>1
  <2> QED
    BY <1>2, <2>1, <2>2 DEF TypeOK
<1> QED
  BY <1>1, <1>2 DEF Post

LEMMA MessageType ==
    ASSUME NEW j \in Jobs
    PROVE  \A kind \in {"ack", "reject", "result"} : Msg(kind, j) \in Messages
  BY DEF Msg, Messages

LEMMA TypeInit == SessionAssumption /\ Init => TypeOK
  BY DEF Init, TypeOK, SessionAssumption

LEMMA TypeNext ==
    ASSUME SessionAssumption, TypeOK, [Next]_vars
    PROVE  TypeOK'
<1>1. ASSUME NEW s \in Sessions, Open(s) \/ Break(s) \/ RotateCert(s) PROVE TypeOK'
  BY <1>1, SessionAssumption DEF Open, Break, RotateCert, TypeOK, SessionAssumption
<1>2. ASSUME NEW s \in Sessions, NEW j \in Jobs, Receive(s, j) PROVE TypeOK'
  BY <1>2, SessionAssumption DEF Receive, Arrives, TypeOK, SessionAssumption
<1>3. ASSUME NEW s \in Sessions, Reject(s) PROVE TypeOK'
  <2>1. hand[s] \in Jobs /\ Post(s, Msg("reject", hand[s]))
    BY <1>3 DEF Reject, TypeOK
  <2>2. outbox' \in [Sessions -> Seq(Messages)] /\ \A t \in Sessions : Len(outbox'[t]) <= OutCap
    BY <2>1, PostType, MessageType
  <2> QED
    BY <1>3, <2>2 DEF Reject, TypeOK, SessionAssumption
<1>4. ASSUME NEW s \in Sessions, Accept(s) PROVE TypeOK'
  <2>1. hand[s] \in Jobs /\ Post(s, Msg("ack", hand[s]))
    BY <1>4 DEF Accept, TypeOK
  <2>2. outbox' \in [Sessions -> Seq(Messages)] /\ \A t \in Sessions : Len(outbox'[t]) <= OutCap
    BY <2>1, PostType, MessageType
  <2> QED
    <3>1. UNCHANGED <<broken, done, cmds, worker, active, sender, told, sent>> /\ recv[s] = "ack"
          /\ \/ /\ running' = [running EXCEPT ![s] = @ \cup {hand[s]}]
                /\ recv' = [recv EXCEPT ![s] = "recv"] /\ hand' = [hand EXCEPT ![s] = NoJob]
             \/ recv' = [recv EXCEPT ![s] = "queue"] /\ UNCHANGED <<running, hand>>
      BY <1>4 DEF Accept
    <3>2. running' \in [Sessions -> SUBSET Jobs]
      <4>1. running \in [Sessions -> SUBSET Jobs] /\ running[s] \cup {hand[s]} \subseteq Jobs
        BY <2>1 DEF TypeOK
      <4> QED
        BY <3>1, <4>1
    <3>3. /\ recv' \in [Sessions -> {"new", "recv", "ack", "reject", "queue", "gone"}]
          /\ hand' \in [Sessions -> Jobs \cup {NoJob}]
      BY <3>1 DEF TypeOK
    <3>4. \A t \in Sessions : hand'[t] \in Jobs <=> recv'[t] \in {"ack", "reject", "queue"}
      BY <3>1, SessionAssumption DEF TypeOK, SessionAssumption
    <3> QED
      BY <2>2, <3>1, <3>2, <3>3, <3>4, Zenon DEF TypeOK
<1>5. ASSUME NEW s \in Sessions, Queue(s) PROVE TypeOK'
  <2>1. hand[s] \in Jobs /\ cmds[s] \in Seq(Jobs) /\ CmdCap \in Nat
    BY <1>5 DEF Queue, TypeOK, SessionAssumption
  <2>2. /\ Append(cmds[s], hand[s]) \in Seq(Jobs) /\ Len(cmds[s]) \in Nat
        /\ Len(Append(cmds[s], hand[s])) = Len(cmds[s]) + 1
    BY <2>1
  <2>3. cmds' \in [Sessions -> Seq(Jobs)] /\ \A t \in Sessions : Len(cmds'[t]) <= CmdCap
    <3>1. \/ UNCHANGED cmds
          \/ Len(cmds[s]) < CmdCap /\ cmds' = [cmds EXCEPT ![s] = Append(@, hand[s])]
      BY <1>5 DEF Queue
    <3>2. cmds \in [Sessions -> Seq(Jobs)] /\ \A t \in Sessions : Len(cmds[t]) <= CmdCap
      BY DEF TypeOK
    <3>3. CASE UNCHANGED cmds
      BY <3>2, <3>3
    <3>4. CASE Len(cmds[s]) < CmdCap /\ cmds' = [cmds EXCEPT ![s] = Append(@, hand[s])]
      <4>1. \A t \in Sessions : cmds'[t] = IF t = s THEN Append(cmds[s], hand[s]) ELSE cmds[t]
        BY <3>2, <3>4
      <4>2. DOMAIN cmds' = Sessions /\ cmds' = [t \in Sessions |-> cmds'[t]]
        BY <3>2, <3>4
      <4>3. \A t \in Sessions : cmds'[t] \in Seq(Jobs) /\ Len(cmds'[t]) <= CmdCap
        BY <2>1, <2>2, <3>2, <3>4, <4>1
      <4> QED
        BY <4>2, <4>3
    <3> QED
      BY <3>1, <3>3, <3>4
  <2> QED
    BY <1>5, <2>3 DEF Queue, TypeOK, SessionAssumption
<1>6. ASSUME NEW s \in Sessions, RecvFails(s) PROVE TypeOK'
  BY <1>6 DEF RecvFails, TypeOK
<1>7. ASSUME NEW s \in Sessions, Take(s) PROVE TypeOK'
  <2>1. cmds[s] \in Seq(Jobs) /\ cmds[s] # <<>> /\ Len(cmds[s]) <= CmdCap /\ CmdCap \in Nat
    BY <1>7 DEF Take, TypeOK, SessionAssumption
  <2>2. /\ Head(cmds[s]) \in Jobs /\ Tail(cmds[s]) \in Seq(Jobs) /\ Len(cmds[s]) \in Nat
        /\ Len(Tail(cmds[s])) = Len(cmds[s]) - 1
    BY <2>1
  <2> QED
    BY <1>7, <2>1, <2>2 DEF Take, TypeOK
<1>8. ASSUME NEW s \in Sessions, WorkerExits(s) \/ SenderExits(s) PROVE TypeOK'
  BY <1>8 DEF WorkerExits, SenderExits, TypeOK
<1>9. ASSUME NEW s \in Sessions, NEW j \in Jobs, Report(s, j) PROVE TypeOK'
  <2>1. outbox' \in [Sessions -> Seq(Messages)] /\ \A t \in Sessions : Len(outbox'[t]) <= OutCap
    BY <1>9, PostType, MessageType DEF Report
  <2> QED
    BY <1>9, <2>1 DEF Report, TypeOK
<1>10. ASSUME NEW s \in Sessions, Write(s) PROVE TypeOK'
  <2>1. outbox[s] \in Seq(Messages) /\ outbox[s] # <<>> /\ Len(outbox[s]) <= OutCap /\ OutCap \in Nat
    BY <1>10 DEF Write, TypeOK, SessionAssumption
  <2>2. /\ Head(outbox[s]) \in Messages /\ Tail(outbox[s]) \in Seq(Messages)
        /\ Len(outbox[s]) \in Nat /\ Len(Tail(outbox[s])) = Len(outbox[s]) - 1
    BY <2>1
  <2>3. \A before \in {"nothing", "accepted", "over", "nonsense"}, kind \in {"ack", "reject", "result"} :
            Heard(before, kind) \in {"nothing", "accepted", "over", "nonsense"}
    BY DEF Heard
  <2>4. Head(outbox[s]).job \in Jobs /\ Head(outbox[s]).kind \in {"ack", "reject", "result"}
    BY <2>2 DEF Messages
  <2>5. told' \in [Sessions -> [Jobs -> {"nothing", "accepted", "over", "nonsense"}]]
    <3>1. CASE UNCHANGED told
      BY <3>1 DEF TypeOK
    <3>2. CASE s \notin broken
      <4> DEFINE m == Head(outbox[s])
      <4>1. told' = [told EXCEPT ![s][m.job] = Heard(@, m.kind)]
        BY <1>10, <3>2 DEF Write
      <4> HIDE DEF m
      <4>2. told[s] \in [Jobs -> {"nothing", "accepted", "over", "nonsense"}] /\ m.job \in Jobs
            /\ told \in [Sessions -> [Jobs -> {"nothing", "accepted", "over", "nonsense"}]]
        BY <2>4 DEF TypeOK, m
      <4>3. Heard(told[s][m.job], m.kind) \in {"nothing", "accepted", "over", "nonsense"}
        BY <2>3, <2>4, <4>2 DEF m
      <4>4. \A t \in Sessions : told'[t] \in [Jobs -> {"nothing", "accepted", "over", "nonsense"}]
        BY <4>1, <4>2, <4>3
      <4> QED
        BY <4>1, <4>2, <4>4
    <3> QED
      BY <1>10, <3>1, <3>2 DEF Write
  <2>6. outbox' \in [Sessions -> Seq(Messages)] /\ \A t \in Sessions : Len(outbox'[t]) <= OutCap
    BY <1>10, <2>1, <2>2 DEF Write, TypeOK
  <2>7. /\ UNCHANGED <<recv, hand, broken, cmds, worker, running, active, sent>>
        /\ done' \in {done, done \cup {s}} /\ sender' \in {sender, [sender EXCEPT ![s] = "off"]}
    BY <1>10 DEF Write
  <2> QED
    BY <2>5, <2>6, <2>7 DEF TypeOK
<1>11. CASE UNCHANGED vars
  BY <1>11 DEF vars, TypeOK
<1> QED
  BY <1>1, <1>2, <1>3, <1>4, <1>5, <1>6, <1>7, <1>8, <1>9, <1>10, <1>11
  DEF Next, PeerStep, SessionStep

\* Every variable of a session keeps its type, neither queue exceeds its capacity, and a
\* command is in hand exactly while the receive loop deals with it.
THEOREM SessionTypeCorrect == Spec => []TypeOK
<1>1. Init => TypeOK
  BY TypeInit, SessionAssumption
<1>2. TypeOK /\ [Next]_vars => TypeOK'
  BY TypeNext, SessionAssumption
<1> QED
  BY <1>1, <1>2, PTL DEF Spec

-----------------------------------------------------------------------------
(* What is active *)

Distinct(q) == \A i, k \in 1..Len(q) : q[i] = q[k] => i = k

Busy(s) == running[s] \cup Range(cmds[s])

\* A job is at one place only: in the receive loop's hand, in the queue or in runCommand.
AtOnePlace(s) ==
    /\ Distinct(cmds[s]) /\ running[s] \cap Range(cmds[s]) = {}
    /\ IF recv[s] \in {"ack", "queue"}
       THEN hand[s] \notin Busy(s) /\ active[s] = Busy(s) \cup {hand[s]}
       ELSE active[s] = Busy(s)

SessionInv == TypeOK /\ \A s \in Sessions \ done : AtOnePlace(s)

LEMMA RangeAppend ==
    ASSUME NEW q \in Seq(Jobs), NEW j \in Jobs
    PROVE  /\ Range(Append(q, j)) = Range(q) \cup {j}
           /\ Distinct(q) /\ j \notin Range(q) => Distinct(Append(q, j))
<1> DEFINE r == Append(q, j)
<1>1. /\ Len(q) \in Nat /\ Len(r) = Len(q) + 1 /\ DOMAIN r = 1..(Len(q) + 1)
      /\ DOMAIN q = 1..Len(q) /\ r[Len(q) + 1] = j /\ \A i \in 1..Len(q) : r[i] = q[i]
  OBVIOUS
<1> HIDE DEF r
<1>2. 1..(Len(q) + 1) = 1..Len(q) \cup {Len(q) + 1}
  BY <1>1
<1>3. Range(r) = Range(q) \cup {j}
  BY <1>1, <1>2 DEF Range
<1>4. ASSUME Distinct(q), j \notin Range(q) PROVE Distinct(r)
  BY <1>1, <1>4 DEF Range, Distinct
<1> QED
  BY <1>3, <1>4 DEF r

LEMMA RangeTail ==
    ASSUME NEW q \in Seq(Jobs), q # <<>>, Distinct(q)
    PROVE  /\ Range(Tail(q)) = Range(q) \ {Head(q)} /\ Head(q) \in Range(q)
           /\ Distinct(Tail(q))
<1> DEFINE r == Tail(q)
<1>1. /\ Len(q) \in Nat \ {0} /\ Len(r) = Len(q) - 1 /\ DOMAIN r = 1..(Len(q) - 1)
      /\ DOMAIN q = 1..Len(q) /\ Head(q) = q[1] /\ \A i \in 1..(Len(q) - 1) : r[i] = q[i + 1]
  OBVIOUS
<1> HIDE DEF r
<1>2. Range(r) \subseteq Range(q) \ {Head(q)}
  BY <1>1 DEF Range, Distinct
<1>3. ASSUME NEW i \in 1..Len(q), q[i] # Head(q) PROVE q[i] \in Range(r)
  <2>1. i - 1 \in 1..(Len(q) - 1) /\ r[i - 1] = q[i]
    BY <1>1, <1>3
  <2> QED
    BY <1>1, <2>1 DEF Range
<1>4. Range(q) \ {Head(q)} \subseteq Range(r) /\ Head(q) \in Range(q)
  BY <1>1, <1>3 DEF Range
<1>5. Distinct(r)
  BY <1>1 DEF Distinct
<1> QED
  BY <1>2, <1>4, <1>5 DEF r

\* A step of a session is no step of another, and no session is taken up again.
LEMMA LocalStep ==
    ASSUME TypeOK, NEW s \in Sessions, PeerStep(s) \/ SessionStep(s)
    PROVE  /\ done \subseteq done'
           /\ \A t \in Sessions \ {s} :
                /\ recv'[t] = recv[t] /\ hand'[t] = hand[t] /\ cmds'[t] = cmds[t]
                /\ running'[t] = running[t] /\ active'[t] = active[t]
<1>1. CASE PeerStep(s)
  BY <1>1 DEF PeerStep, Open, Break, RotateCert, Receive, TypeOK
<1>2. CASE Reject(s) \/ Accept(s) \/ Queue(s) \/ RecvFails(s)
  BY <1>2 DEF Reject, Accept, Queue, RecvFails, TypeOK
<1>3. CASE Take(s) \/ WorkerExits(s) \/ SenderExits(s) \/ \E j \in Jobs : Report(s, j)
  BY <1>3 DEF Take, WorkerExits, SenderExits, Report, TypeOK
<1>4. CASE Write(s)
  BY <1>4 DEF Write, TypeOK
<1> QED
  BY <1>1, <1>2, <1>3, <1>4 DEF SessionStep

LEMMA OwnStep ==
    ASSUME SessionInv, NEW s \in Sessions \ done, PeerStep(s) \/ SessionStep(s), s \notin done'
    PROVE  AtOnePlace(s)'
<1>1. AtOnePlace(s) /\ TypeOK
  BY DEF SessionInv
<1>2. cmds[s] \in Seq(Jobs) /\ running[s] \in SUBSET Jobs
  BY <1>1 DEF TypeOK
<1>3. CASE Open(s) \/ Break(s) \/ RotateCert(s) \/ RecvFails(s) \/ WorkerExits(s) \/ SenderExits(s)
  <2>1. /\ UNCHANGED <<hand, cmds, running, active>>
        /\ \/ recv'[s] \notin {"ack", "queue"} /\ recv[s] \notin {"ack", "queue"}
           \/ UNCHANGED recv
    BY <1>1, <1>3 DEF Open, Break, RotateCert, RecvFails, WorkerExits, SenderExits, TypeOK
  <2> QED
    BY <1>1, <2>1 DEF AtOnePlace, Busy
<1>4. ASSUME NEW j \in Jobs, Receive(s, j) PROVE AtOnePlace(s)'
  <2>1. /\ UNCHANGED <<cmds, running>> /\ hand'[s] = j /\ recv[s] = "recv"
        /\ recv'[s] = IF j \in active[s] THEN "reject" ELSE "ack"
        /\ active'[s] = active[s] \cup {j}
    BY <1>1, <1>4 DEF Receive, Arrives, TypeOK
  <2> QED
    BY <1>1, <2>1 DEF AtOnePlace, Busy
<1>5. CASE Reject(s)
  <2>1. UNCHANGED <<cmds, running, active>> /\ recv[s] = "reject" /\ recv'[s] = "recv"
    BY <1>1, <1>5 DEF Reject, TypeOK
  <2> QED
    BY <1>1, <2>1 DEF AtOnePlace, Busy
<1>6. CASE Accept(s)
  <2>1. /\ UNCHANGED <<cmds, active>> /\ recv[s] = "ack"
        /\ \/ running'[s] = running[s] \cup {hand[s]} /\ recv'[s] = "recv"
           \/ running'[s] = running[s] /\ recv'[s] = "queue" /\ hand'[s] = hand[s]
    BY <1>1, <1>6 DEF Accept, TypeOK
  <2> QED
    BY <1>1, <2>1 DEF AtOnePlace, Busy
<1>7. CASE Queue(s)
  <2>1. /\ UNCHANGED <<running, active>> /\ recv[s] = "queue" /\ recv'[s] = "recv"
        /\ cmds'[s] = Append(cmds[s], hand[s]) /\ hand[s] \in Jobs
    BY <1>1, <1>7 DEF Queue, TypeOK
  <2>2. /\ Range(cmds'[s]) = Range(cmds[s]) \cup {hand[s]}
        /\ Distinct(cmds[s]) /\ hand[s] \notin Range(cmds[s]) => Distinct(cmds'[s])
    BY <1>2, <2>1, RangeAppend
  <2> QED
    BY <1>1, <2>1, <2>2 DEF AtOnePlace, Busy
<1>8. CASE Take(s)
  <2>1. /\ UNCHANGED <<recv, hand, active>> /\ cmds[s] # <<>>
        /\ running'[s] = running[s] \cup {Head(cmds[s])} /\ cmds'[s] = Tail(cmds[s])
    BY <1>1, <1>8 DEF Take, TypeOK
  <2>2. /\ Range(cmds'[s]) = Range(cmds[s]) \ {Head(cmds[s])} /\ Head(cmds[s]) \in Range(cmds[s])
        /\ Distinct(cmds'[s])
    BY <1>1, <1>2, <2>1, RangeTail DEF AtOnePlace
  <2>3. Busy(s)' = Busy(s)
    BY <2>1, <2>2 DEF Busy
  <2> QED
    BY <1>1, <2>1, <2>2, <2>3 DEF AtOnePlace
<1>9. ASSUME NEW j \in Jobs, Report(s, j) PROVE AtOnePlace(s)'
  <2>1. /\ UNCHANGED <<recv, hand, cmds>> /\ j \in running[s]
        /\ running'[s] = running[s] \ {j} /\ active'[s] = active[s] \ {j}
    BY <1>1, <1>9 DEF Report, TypeOK
  <2> QED
    BY <1>1, <2>1 DEF AtOnePlace, Busy
<1>10. CASE Write(s)
  <2>1. UNCHANGED <<recv, hand, cmds, running, active>>
    BY <1>10 DEF Write
  <2> QED
    BY <1>1, <2>1 DEF AtOnePlace, Busy
<1> QED
  BY <1>3, <1>4, <1>5, <1>6, <1>7, <1>8, <1>9, <1>10 DEF PeerStep, SessionStep

LEMMA SessionNext ==
    ASSUME SessionAssumption, SessionInv, [Next]_vars
    PROVE  SessionInv'
<1>1. TypeOK'
  BY TypeNext DEF SessionInv
<1>2. ASSUME NEW s \in Sessions, PeerStep(s) \/ SessionStep(s), NEW t \in Sessions \ done'
      PROVE  AtOnePlace(t)'
  <2>1. t \notin done
    BY <1>2, LocalStep DEF SessionInv
  <2>2. CASE t = s
    BY <1>2, <2>1, <2>2, OwnStep
  <2>3. CASE t # s
    BY <1>2, <2>1, <2>3, LocalStep DEF SessionInv, AtOnePlace, Busy
  <2> QED
    BY <2>2, <2>3
<1>3. CASE UNCHANGED vars
  BY <1>1, <1>3 DEF vars, SessionInv, AtOnePlace, Busy
<1> QED
  BY <1>1, <1>2, <1>3 DEF SessionInv, Next

LEMMA SessionInit == Init => SessionInv
<1> SUFFICES ASSUME Init PROVE SessionInv
  OBVIOUS
<1>1. \A s \in Sessions : cmds[s] = <<>> /\ running[s] = {} /\ active[s] = {} /\ recv[s] = "new"
  BY DEF Init
<1>2. Len(<<>>) = 0 /\ Range(<<>>) = {}
  BY DEF Range
<1>3. \A s \in Sessions : AtOnePlace(s)
  BY <1>1, <1>2 DEF AtOnePlace, Busy, Distinct
<1> QED
  BY <1>3, TypeInit, SessionAssumption DEF SessionInv

\* As long as a session lasts, s.active lists the jobs that are in the receive loop's hand,
\* queued or running, and no others; none of them is at two of these places.
THEOREM ActiveJobs == Spec => []ActiveIsInProgress
<1>1. SessionInv /\ [Next]_vars => SessionInv'
  BY SessionNext, SessionAssumption
<1>2. SessionInv => ActiveIsInProgress
  BY DEF SessionInv, AtOnePlace, Busy, ActiveIsInProgress
<1> QED
  BY <1>1, <1>2, SessionInit, PTL DEF Spec

-----------------------------------------------------------------------------
(* What the manager hears *)

Stories == {"nothing", "accepted", "over"}

\* f is how the story of job j goes on as the manager hears the messages of q one by one.
Story(q, j, f) ==
    /\ f \in [0..Len(q) -> Stories]
    /\ \A i \in 1..Len(q) : f[i] = IF q[i].job = j THEN Heard(f[i - 1], q[i].kind) ELSE f[i - 1]

\* The job is accepted and not yet over on this side.
InProgress(s, j) == j \in Busy(s) \/ (recv[s] = "queue" /\ hand[s] = j)

\* With what is in the outbox the story makes sense, and leads to where the job is.
InTurn(s, j) ==
    \E f : /\ Story(outbox[s], j, f) /\ f[0] = told[s][j]
           /\ f[Len(outbox[s])] = "accepted" <=> InProgress(s, j)

TurnInv == SessionInv /\ \A s \in Sessions \ done : \A j \in Jobs : InTurn(s, j)

LEMMA StoryAppend ==
    ASSUME NEW q \in Seq(Messages), NEW m \in Messages, NEW j \in Jobs, NEW f, Story(q, j, f),
           NEW x \in Stories, x = IF m.job = j THEN Heard(f[Len(q)], m.kind) ELSE f[Len(q)]
    PROVE  \E g : Story(Append(q, m), j, g) /\ g[0] = f[0] /\ g[Len(Append(q, m))] = x
<1> DEFINE n == Len(q)
           g == [i \in 0..(n + 1) |-> IF i = n + 1 THEN x ELSE f[i]]
           r == Append(q, m)
<1>1. n \in Nat /\ Len(r) = n + 1 /\ r[n + 1] = m /\ \A i \in 1..n : r[i] = q[i]
  OBVIOUS
<1>2. \A i \in 0..n : f[i] \in Stories
  BY DEF Story
<1> HIDE DEF n, r
<1>3. g \in [0..(n + 1) -> Stories] /\ g[0] = f[0] /\ g[n + 1] = x /\ g[n] = f[n]
  BY <1>1, <1>2
<1>4. ASSUME NEW i \in 1..(n + 1)
      PROVE  g[i] = IF r[i].job = j THEN Heard(g[i - 1], r[i].kind) ELSE g[i - 1]
  <2>1. CASE i = n + 1
    <3>1. i - 1 = n /\ r[i] = m
      BY <1>1, <2>1
    <3> QED
      BY <1>3, <2>1, <3>1 DEF n
  <2>2. CASE i # n + 1
    <3>1. i \in 1..n /\ g[i] = f[i] /\ g[i - 1] = f[i - 1] /\ r[i] = q[i]
      BY <1>1, <2>2
    <3>2. \A k \in 1..n : f[k] = IF q[k].job = j THEN Heard(f[k - 1], q[k].kind) ELSE f[k - 1]
      BY DEF Story, n
    <3> HIDE DEF g
    <3> QED
      BY <3>1, <3>2
  <2> QED
    BY <2>1, <2>2
<1> HIDE DEF g
<1>5. Story(r, j, g)
  BY <1>1, <1>3, <1>4 DEF Story
<1> QED
  BY <1>1, <1>3, <1>5 DEF r

LEMMA StoryTail ==
    ASSUME NEW q \in Seq(Messages), q # <<>>, NEW j \in Jobs, NEW f, Story(q, j, f)
    PROVE  /\ f[1] = IF Head(q).job = j THEN Heard(f[0], Head(q).kind) ELSE f[0]
           /\ \E g : Story(Tail(q), j, g) /\ g[0] = f[1] /\ g[Len(Tail(q))] = f[Len(q)]
<1> DEFINE r == Tail(q)
           n == Len(r)
           g == [i \in 0..n |-> f[i + 1]]
<1>1. n \in Nat /\ Len(q) = n + 1 /\ Head(q) = q[1] /\ \A i \in 1..n : r[i] = q[i + 1]
  OBVIOUS
<1> HIDE DEF r, n
<1>2. /\ \A i \in 0..(n + 1) : f[i] \in Stories
      /\ \A i \in 1..(n + 1) : f[i] = IF q[i].job = j THEN Heard(f[i - 1], q[i].kind) ELSE f[i - 1]
  BY <1>1 DEF Story
<1>3. g \in [0..n -> Stories] /\ g[0] = f[1] /\ g[n] = f[n + 1]
  BY <1>1, <1>2
<1>4. ASSUME NEW i \in 1..n
      PROVE  g[i] = IF r[i].job = j THEN Heard(g[i - 1], r[i].kind) ELSE g[i - 1]
  <2>1. i + 1 \in 1..(n + 1) /\ (i + 1) - 1 = i /\ g[i] = f[i + 1] /\ g[i - 1] = f[i] /\ r[i] = q[i + 1]
    BY <1>1
  <2> HIDE DEF g
  <2>2. f[i + 1] = IF q[i + 1].job = j THEN Heard(f[(i + 1) - 1], q[i + 1].kind) ELSE f[(i + 1) - 1]
    BY <1>2, <2>1
  <2> QED
    BY <2>1, <2>2
<1> HIDE DEF g
<1>5. Story(r, j, g)
  BY <1>1, <1>3, <1>4 DEF Story, n
<1>6. f[1] = IF Head(q).job = j THEN Heard(f[0], Head(q).kind) ELSE f[0]
  <2>1. 1 \in 1..(n + 1) /\ 1 - 1 = 0
    BY <1>1
  <2> QED
    BY <1>1, <1>2, <2>1
<1>7. Story(r, j, g) /\ g[0] = f[1] /\ g[Len(r)] = f[Len(q)]
  BY <1>1, <1>3, <1>5 DEF n
<1> QED
  BY <1>6, <1>7 DEF r

\* A message that is put in the outbox goes on with the story of its job.
LEMMA TurnPosts ==
    ASSUME TurnInv, NEW s \in Sessions \ done, s \notin done', NEW m \in Messages, Post(s, m), NEW j \in Jobs,
           UNCHANGED told,
           m.kind = "reject" \/ m.job # j => (InProgress(s, j)' <=> InProgress(s, j)),
           m.kind = "ack" /\ m.job = j => ~InProgress(s, j) /\ InProgress(s, j)',
           m.kind = "result" /\ m.job = j => InProgress(s, j) /\ ~InProgress(s, j)'
    PROVE  InTurn(s, j)'
<1>1. outbox \in [Sessions -> Seq(Messages)] /\ outbox' = [outbox EXCEPT ![s] = Append(@, m)]
  BY DEF Post, TurnInv, SessionInv, TypeOK
<1>2. outbox[s] \in Seq(Messages) /\ outbox'[s] = Append(outbox[s], m)
  BY <1>1
<1>3. PICK f : /\ Story(outbox[s], j, f) /\ f[0] = told[s][j]
               /\ f[Len(outbox[s])] = "accepted" <=> InProgress(s, j)
  BY DEF TurnInv, InTurn
<1> DEFINE y == f[Len(outbox[s])]
           x == IF m.job = j THEN Heard(y, m.kind) ELSE y
<1>4. y \in Stories
  <2>1. Len(outbox[s]) \in 0..Len(outbox[s])
    BY <1>2
  <2> QED
    BY <1>3, <2>1 DEF Story
<1>5. m.kind \in {"ack", "reject", "result"}
  BY DEF Messages
<1>6. x \in Stories /\ (x = "accepted" <=> InProgress(s, j)')
  <2> HIDE DEF y
  <2>0. y = "accepted" <=> InProgress(s, j)
    BY <1>3 DEF y
  <2>1. CASE m.job # j
    BY <1>4, <2>0, <2>1
  <2>2. CASE m.job = j /\ m.kind = "ack"
    BY <1>4, <2>0, <2>2 DEF Heard, Stories
  <2>3. CASE m.job = j /\ m.kind = "result"
    BY <1>4, <2>0, <2>3 DEF Heard, Stories
  <2>4. CASE m.job = j /\ m.kind = "reject"
    BY <1>4, <2>0, <2>4 DEF Heard, Stories
  <2> QED
    BY <1>5, <2>1, <2>2, <2>3, <2>4
<1>7. Story(outbox[s], j, f) /\ x = IF m.job = j THEN Heard(f[Len(outbox[s])], m.kind) ELSE f[Len(outbox[s])]
  BY <1>3
<1> DEFINE q == outbox[s]
<1> HIDE DEF x, y
<1>8. \E g : Story(Append(q, m), j, g) /\ g[0] = f[0] /\ g[Len(Append(q, m))] = x
  <2>1. q \in Seq(Messages) /\ x \in Stories /\ Story(q, j, f)
        /\ x = IF m.job = j THEN Heard(f[Len(q)], m.kind) ELSE f[Len(q)]
    BY <1>2, <1>6, <1>7
  <2> HIDE DEF q
  <2> QED
    BY <2>1, StoryAppend
<1> QED
  BY <1>2, <1>3, <1>6, <1>8 DEF InTurn

\* A step that leaves the outbox and what was told alone.
LEMMA TurnRests ==
    ASSUME TurnInv, NEW s \in Sessions \ done, NEW j \in Jobs,
           outbox'[s] = outbox[s], told'[s] = told[s], InProgress(s, j)' <=> InProgress(s, j)
    PROVE  InTurn(s, j)'
<1>1. InTurn(s, j)
  BY DEF TurnInv
<1> QED
  BY <1>1 DEF InTurn

LEMMA TurnOwn ==
    ASSUME TurnInv, NEW s \in Sessions \ done, PeerStep(s) \/ SessionStep(s), s \notin done', NEW j \in Jobs
    PROVE  InTurn(s, j)'
<1>1. AtOnePlace(s) /\ TypeOK
  BY DEF TurnInv, SessionInv
<1>2. cmds[s] \in Seq(Jobs) /\ running[s] \in SUBSET Jobs
  BY <1>1 DEF TypeOK
<1>3. CASE Open(s) \/ Break(s) \/ RotateCert(s) \/ RecvFails(s) \/ WorkerExits(s) \/ SenderExits(s)
  <2>1. /\ UNCHANGED <<hand, cmds, running, outbox, told>>
        /\ \/ recv'[s] # "queue" /\ recv[s] # "queue"
           \/ UNCHANGED recv
    BY <1>1, <1>3 DEF Open, Break, RotateCert, RecvFails, WorkerExits, SenderExits, TypeOK
  <2>2. InProgress(s, j)' <=> InProgress(s, j)
    BY <2>1 DEF InProgress, Busy
  <2> QED
    BY <2>1, <2>2, TurnRests
<1>4. ASSUME NEW i \in Jobs, Receive(s, i) PROVE InTurn(s, j)'
  <2>1. UNCHANGED <<cmds, running, outbox, told>> /\ recv[s] = "recv" /\ recv'[s] \in {"reject", "ack"}
    BY <1>1, <1>4 DEF Receive, Arrives, TypeOK
  <2>2. InProgress(s, j)' <=> InProgress(s, j)
    BY <2>1 DEF InProgress, Busy
  <2> QED
    BY <2>1, <2>2, TurnRests
<1>5. CASE Reject(s)
  <2>1. /\ UNCHANGED <<cmds, running, told>> /\ recv[s] = "reject" /\ recv'[s] = "recv"
        /\ hand[s] \in Jobs /\ Post(s, Msg("reject", hand[s]))
    BY <1>1, <1>5 DEF Reject, TypeOK
  <2>2. InProgress(s, j)' <=> InProgress(s, j)
    BY <2>1 DEF InProgress, Busy
  <2>3. Msg("reject", hand[s]) \in Messages /\ Msg("reject", hand[s]).kind = "reject"
    BY <2>1, MessageType DEF Msg
  <2> QED
    BY <2>1, <2>2, <2>3, TurnPosts
<1>6. CASE Accept(s)
  <2>1. /\ UNCHANGED <<cmds, told>> /\ recv[s] = "ack" /\ hand[s] \in Jobs /\ Post(s, Msg("ack", hand[s]))
        /\ \/ running'[s] = running[s] \cup {hand[s]} /\ recv'[s] = "recv"
           \/ running'[s] = running[s] /\ recv'[s] = "queue" /\ hand'[s] = hand[s]
    BY <1>1, <1>6 DEF Accept, TypeOK
  <2>2. Msg("ack", hand[s]) \in Messages /\ Msg("ack", hand[s]).kind = "ack" /\ Msg("ack", hand[s]).job = hand[s]
    BY <2>1, MessageType DEF Msg
  <2>3. hand[s] # j => (InProgress(s, j)' <=> InProgress(s, j))
    BY <2>1 DEF InProgress, Busy
  <2>4. hand[s] = j => ~InProgress(s, j) /\ InProgress(s, j)'
    BY <1>1, <2>1 DEF InProgress, Busy, AtOnePlace
  <2> QED
    BY <2>1, <2>2, <2>3, <2>4, TurnPosts
<1>7. CASE Queue(s)
  <2>1. /\ UNCHANGED <<running, outbox, told>> /\ recv[s] = "queue" /\ recv'[s] = "recv"
        /\ cmds'[s] = Append(cmds[s], hand[s]) /\ hand[s] \in Jobs
    BY <1>1, <1>7 DEF Queue, TypeOK
  <2>2. Range(cmds'[s]) = Range(cmds[s]) \cup {hand[s]}
    BY <1>2, <2>1, RangeAppend
  <2>3. InProgress(s, j)' <=> InProgress(s, j)
    BY <2>1, <2>2 DEF InProgress, Busy
  <2> QED
    BY <2>1, <2>3, TurnRests
<1>8. CASE Take(s)
  <2>1. /\ UNCHANGED <<recv, hand, outbox, told>> /\ cmds[s] # <<>>
        /\ running'[s] = running[s] \cup {Head(cmds[s])} /\ cmds'[s] = Tail(cmds[s])
    BY <1>1, <1>8 DEF Take, TypeOK
  <2>2. Range(cmds'[s]) = Range(cmds[s]) \ {Head(cmds[s])} /\ Head(cmds[s]) \in Range(cmds[s])
    BY <1>1, <1>2, <2>1, RangeTail DEF AtOnePlace
  <2>3. InProgress(s, j)' <=> InProgress(s, j)
    BY <2>1, <2>2 DEF InProgress, Busy
  <2> QED
    BY <2>1, <2>3, TurnRests
<1>9. ASSUME NEW i \in Jobs, Report(s, i) PROVE InTurn(s, j)'
  <2>1. /\ UNCHANGED <<recv, hand, cmds, told>> /\ i \in running[s] /\ running'[s] = running[s] \ {i}
        /\ Post(s, Msg("result", i))
    BY <1>1, <1>9 DEF Report, TypeOK
  <2>2. Msg("result", i) \in Messages /\ Msg("result", i).kind = "result" /\ Msg("result", i).job = i
    BY MessageType DEF Msg
  <2>3. i # j => (InProgress(s, j)' <=> InProgress(s, j))
    BY <2>1 DEF InProgress, Busy
  <2>4. i = j => InProgress(s, j) /\ ~InProgress(s, j)'
    BY <1>1, <2>1 DEF InProgress, Busy, AtOnePlace
  <2> QED
    BY <2>1, <2>2, <2>3, <2>4, TurnPosts
<1>10. CASE Write(s)
  <2>1. /\ UNCHANGED <<recv, hand, cmds, running>> /\ outbox[s] # <<>> /\ outbox'[s] = Tail(outbox[s])
        /\ outbox[s] \in Seq(Messages) /\ Head(outbox[s]) \in Messages
    BY <1>1, <1>10 DEF Write, TypeOK
  <2> DEFINE m == Head(outbox[s])
  <2>2. m.job \in Jobs /\ told' = [told EXCEPT ![s][m.job] = Heard(@, m.kind)]
    BY <1>10, <2>1 DEF Write, Messages
  <2>3. told'[s][j] = IF m.job = j THEN Heard(told[s][j], m.kind) ELSE told[s][j]
    <3> HIDE DEF m
    <3> QED
      BY <1>1, <2>2 DEF TypeOK
  <2>4. PICK f : /\ Story(outbox[s], j, f) /\ f[0] = told[s][j]
                 /\ f[Len(outbox[s])] = "accepted" <=> InProgress(s, j)
    BY DEF TurnInv, InTurn
  <2>5. /\ f[1] = IF m.job = j THEN Heard(f[0], m.kind) ELSE f[0]
        /\ \E g : Story(Tail(outbox[s]), j, g) /\ g[0] = f[1] /\ g[Len(Tail(outbox[s]))] = f[Len(outbox[s])]
    BY <2>1, <2>4, StoryTail
  <2>6. InProgress(s, j)' <=> InProgress(s, j)
    BY <2>1 DEF InProgress, Busy
  <2> QED
    BY <2>1, <2>3, <2>4, <2>5, <2>6 DEF InTurn
<1> QED
  BY <1>3, <1>4, <1>5, <1>6, <1>7, <1>8, <1>9, <1>10 DEF PeerStep, SessionStep

\* A step of a session puts nothing in the outbox of another.
LEMMA TurnLocal ==
    ASSUME TypeOK, NEW s \in Sessions, PeerStep(s) \/ SessionStep(s), NEW t \in Sessions \ {s}
    PROVE  outbox'[t] = outbox[t] /\ told'[t] = told[t]
<1>1. CASE PeerStep(s)
  BY <1>1 DEF PeerStep, Open, Break, RotateCert, Receive
<1>2. CASE Reject(s) \/ Accept(s) \/ Queue(s) \/ RecvFails(s)
  BY <1>2 DEF Reject, Accept, Queue, RecvFails, Post, TypeOK
<1>3. CASE Take(s) \/ WorkerExits(s) \/ SenderExits(s) \/ \E j \in Jobs : Report(s, j)
  BY <1>3 DEF Take, WorkerExits, SenderExits, Report, Post, TypeOK
<1>4. CASE Write(s)
  BY <1>4 DEF Write, TypeOK
<1> QED
  BY <1>1, <1>2, <1>3, <1>4 DEF SessionStep

LEMMA TurnNext == ASSUME TurnInv, [Next]_vars PROVE TurnInv'
<1>1. SessionInv'
  BY SessionNext, SessionAssumption DEF TurnInv
<1>2. ASSUME NEW s \in Sessions, PeerStep(s) \/ SessionStep(s), NEW t \in Sessions \ done', NEW j \in Jobs
      PROVE  InTurn(t, j)'
  <2>1. t \notin done /\ TypeOK
    BY <1>2, LocalStep DEF TurnInv, SessionInv
  <2>2. CASE t = s
    BY <1>2, <2>1, <2>2, TurnOwn
  <2>3. CASE t # s
    <3>1. outbox'[t] = outbox[t] /\ told'[t] = told[t]
      BY <1>2, <2>1, <2>3, TurnLocal
    <3>2. InProgress(t, j)' <=> InProgress(t, j)
      BY <1>2, <2>1, <2>3, LocalStep DEF InProgress, Busy
    <3> QED
      BY <2>1, <3>1, <3>2, TurnRests
  <2> QED
    BY <2>2, <2>3
<1>3. CASE UNCHANGED vars
  BY <1>1, <1>3 DEF vars, TurnInv, InTurn, InProgress, Busy
<1> QED
  BY <1>1, <1>2, <1>3 DEF TurnInv, Next

\* The manager hears of every job that it was accepted, then that it is over, in turn, as long as
\* the session lasts, though a job may be sent again before its result has been heard.
THEOREM TurnsKept == Spec => []AnswersInTurn
<1>1. Init => TurnInv
  <2> SUFFICES ASSUME Init PROVE TurnInv
    OBVIOUS
  <2>1. ASSUME NEW s \in Sessions, NEW j \in Jobs PROVE InTurn(s, j)
    <3>1. outbox[s] = <<>> /\ told[s][j] = "nothing" /\ cmds[s] = <<>> /\ running[s] = {} /\ recv[s] = "new"
      BY DEF Init
    <3>2. Len(<<>>) = 0 /\ Range(<<>>) = {}
      BY DEF Range
    <3>3. ~InProgress(s, j)
      BY <3>1, <3>2 DEF InProgress, Busy
    <3> DEFINE f == [i \in 0..0 |-> "nothing"]
    <3>4. f \in [0..Len(outbox[s]) -> Stories] /\ f[0] = "nothing"
      BY <3>1, <3>2 DEF Stories
    <3>5. Story(outbox[s], j, f)
      BY <3>1, <3>2, <3>4 DEF Story
    <3>6. Story(outbox[s], j, f) /\ f[0] = told[s][j] /\ (f[Len(outbox[s])] = "accepted" <=> InProgress(s, j))
      BY <3>1, <3>2, <3>3, <3>4, <3>5
    <3> HIDE DEF f
    <3> QED
      BY <3>6 DEF InTurn
  <2> QED
    BY <2>1, SessionInit DEF TurnInv
<1>2. TurnInv /\ [Next]_vars => TurnInv'
  BY TurnNext
<1>3. TurnInv => AnswersInTurn
  <2> SUFFICES ASSUME TurnInv, NEW s \in Sessions \ done, NEW j \in Jobs PROVE told[s][j] # "nonsense"
    BY DEF AnswersInTurn
  <2>1. PICK f : Story(outbox[s], j, f) /\ f[0] = told[s][j]
    BY DEF TurnInv, InTurn
  <2>2. 0 \in 0..Len(outbox[s])
    <3>1. outbox[s] \in Seq(Messages)
      BY DEF TurnInv, SessionInv, TypeOK
    <3> QED
      BY <3>1
  <2> QED
    BY <2>1, <2>2 DEF Story, Stories
<1> QED
  BY <1>1, <1>2, <1>3, PTL DEF Spec

-----------------------------------------------------------------------------
(* Mutations *)

\* The receive loop queues mutations only, and only the worker runs one.
OneWorker(s) ==
    /\ recv[s] = "queue" => hand[s] \notin ReadOnly
    /\ Range(cmds[s]) \cap ReadOnly = {}
    /\ worker[s] # "busy" => running[s] \subseteq ReadOnly
    /\ \A i, j \in running[s] \ ReadOnly : i = j

\* A session that has not begun runs nothing, one that has returned is over, and an associate
\* that dials has no other.
Lives(s) ==
    /\ recv[s] = "new" => running[s] = {} /\ worker[s] = "off"
    /\ recv[s] = "gone" => s \in done
OneAtATime ==
    DialsHome => \A s, t \in Sessions : recv[s] \notin {"new", "gone"} /\ recv[t] \notin {"new", "gone"} => s = t

TurnsInv == TypeOK /\ OneAtATime /\ \A s \in Sessions : OneWorker(s) /\ Lives(s)

LEMMA QueueRange ==
    ASSUME NEW q \in Seq(Jobs)
    PROVE  /\ \A j \in Jobs : Range(Append(q, j)) = Range(q) \cup {j}
           /\ q # <<>> => Head(q) \in Range(q) /\ Range(Tail(q)) \subseteq Range(q)
<1>1. ASSUME q # <<>> PROVE Head(q) \in Range(q) /\ Range(Tail(q)) \subseteq Range(q)
  <2> DEFINE r == Tail(q)
  <2>1. /\ Len(q) \in Nat \ {0} /\ DOMAIN r = 1..(Len(q) - 1) /\ DOMAIN q = 1..Len(q)
        /\ Head(q) = q[1] /\ \A i \in 1..(Len(q) - 1) : r[i] = q[i + 1]
    BY <1>1
  <2> HIDE DEF r
  <2>2. ASSUME NEW i \in 1..(Len(q) - 1) PROVE r[i] \in {q[k] : k \in 1..Len(q)}
    <3>1. i + 1 \in 1..Len(q)
      BY <2>1
    <3> QED
      BY <2>1, <3>1
  <2>3. Range(r) \subseteq Range(q)
    <3>1. Range(r) = {r[i] : i \in 1..(Len(q) - 1)} /\ Range(q) = {q[k] : k \in 1..Len(q)}
      BY <2>1 DEF Range
    <3> QED
      BY <2>2, <3>1
  <2>4. Head(q) \in Range(q)
    <3>1. 1 \in 1..Len(q)
      BY <2>1
    <3> QED
      BY <2>1, <3>1 DEF Range
  <2> QED
    BY <2>3, <2>4 DEF r
<1>2. ASSUME NEW j \in Jobs PROVE Range(Append(q, j)) = Range(q) \cup {j}
  BY RangeAppend
<1> QED
  BY <1>1, <1>2

\* What a step does to the mutations of its own session and leaves of the others.
LEMMA OwnWorker ==
    ASSUME TurnsInv, NEW s \in Sessions, PeerStep(s) \/ SessionStep(s)
    PROVE  OneWorker(s)' /\ Lives(s)'
<1>1. OneWorker(s) /\ Lives(s) /\ TypeOK
  BY DEF TurnsInv
<1>2. cmds[s] \in Seq(Jobs) /\ running[s] \in SUBSET Jobs
  BY <1>1 DEF TypeOK
<1>3. CASE Open(s)
  BY <1>1, <1>3 DEF Open, OneWorker, Lives, TypeOK
<1>4. CASE Break(s) \/ RotateCert(s) \/ Write(s) \/ SenderExits(s) \/ Reject(s) \/ RecvFails(s)
  <2>1. /\ UNCHANGED <<cmds, worker, running>> /\ done \subseteq done'
        /\ recv'[s] = "queue" => recv[s] = "queue" /\ hand' = hand
        /\ recv'[s] = "new" => recv[s] = "new"
        /\ recv'[s] = "gone" => recv[s] = "gone" \/ s \in done'
    BY <1>1, <1>4 DEF Break, RotateCert, Write, SenderExits, Reject, RecvFails, TypeOK
  <2> QED
    BY <1>1, <2>1 DEF OneWorker, Lives
<1>5. ASSUME NEW j \in Jobs, Receive(s, j) PROVE OneWorker(s)' /\ Lives(s)'
  <2>1. UNCHANGED <<cmds, worker, running>> /\ recv'[s] \in {"reject", "ack"}
    BY <1>1, <1>5 DEF Receive, TypeOK
  <2> QED
    BY <1>1, <2>1 DEF OneWorker, Lives
<1>6. CASE Accept(s)
  <2>1. /\ UNCHANGED <<cmds, worker>>
        /\ \/ hand[s] \in ReadOnly /\ running'[s] = running[s] \cup {hand[s]} /\ recv'[s] = "recv"
           \/ /\ hand[s] \notin ReadOnly /\ running'[s] = running[s]
              /\ recv'[s] = "queue" /\ hand'[s] = hand[s]
    BY <1>1, <1>6 DEF Accept, TypeOK
  <2> QED
    BY <1>1, <2>1 DEF OneWorker, Lives
<1>7. CASE Queue(s)
  <2>1. /\ UNCHANGED <<worker, running>> /\ recv[s] = "queue" /\ recv'[s] = "recv" /\ hand[s] \in Jobs
        /\ cmds'[s] = Append(cmds[s], hand[s]) \/ cmds'[s] = cmds[s]
    BY <1>1, <1>7 DEF Queue, TypeOK
  <2>2. Range(Append(cmds[s], hand[s])) = Range(cmds[s]) \cup {hand[s]}
    BY <1>2, <2>1, QueueRange
  <2>3. Range(cmds'[s]) \cap ReadOnly = {}
    <3>1. Range(cmds[s]) \cap ReadOnly = {} /\ hand[s] \notin ReadOnly
      BY <1>1, <2>1 DEF OneWorker
    <3>2. Range(cmds'[s]) = Range(cmds[s]) \cup {hand[s]} \/ Range(cmds'[s]) = Range(cmds[s])
      BY <2>1, <2>2
    <3> QED
      BY <3>1, <3>2
  <2> QED
    BY <1>1, <2>1, <2>3 DEF OneWorker, Lives
<1>8. CASE Take(s)
  <2>1. /\ UNCHANGED <<recv, hand>> /\ worker[s] = "idle" /\ worker'[s] = "busy" /\ cmds[s] # <<>>
        /\ running'[s] = running[s] \cup {Head(cmds[s])} /\ cmds'[s] = Tail(cmds[s])
    BY <1>1, <1>8 DEF Take, TypeOK
  <2>2. Head(cmds[s]) \in Range(cmds[s]) /\ Range(cmds'[s]) \subseteq Range(cmds[s])
    BY <1>2, <2>1, QueueRange
  <2>3. running'[s] \ ReadOnly \subseteq {Head(cmds[s])} /\ Range(cmds'[s]) \cap ReadOnly = {}
    <3>1. running[s] \subseteq ReadOnly /\ Range(cmds[s]) \cap ReadOnly = {}
      BY <1>1, <2>1 DEF OneWorker
    <3> QED
      BY <2>1, <2>2, <3>1
  <2>4. done' = done
    BY <1>8 DEF Take
  <2> QED
    BY <1>1, <2>1, <2>3, <2>4 DEF OneWorker, Lives
<1>9. CASE WorkerExits(s)
  <2>1. UNCHANGED <<recv, hand, cmds, running, done>> /\ worker[s] = "idle" /\ worker'[s] = "off"
    BY <1>1, <1>9 DEF WorkerExits, TypeOK
  <2> QED
    BY <1>1, <2>1 DEF OneWorker, Lives
<1>10. ASSUME NEW j \in Jobs, Report(s, j) PROVE OneWorker(s)' /\ Lives(s)'
  <2>1. /\ UNCHANGED <<recv, hand, cmds, done>> /\ j \in running[s] /\ running'[s] = running[s] \ {j}
        /\ worker'[s] = IF j \in ReadOnly THEN worker[s] ELSE "idle"
    BY <1>1, <1>10 DEF Report, TypeOK
  <2> QED
    BY <1>1, <2>1 DEF OneWorker, Lives
<1> QED
  BY <1>3, <1>4, <1>5, <1>6, <1>7, <1>8, <1>9, <1>10 DEF PeerStep, SessionStep

LEMMA OthersWork ==
    ASSUME TypeOK, NEW s \in Sessions, PeerStep(s) \/ SessionStep(s), NEW t \in Sessions \ {s}
    PROVE  worker'[t] = worker[t]
<1>1. CASE PeerStep(s)
  BY <1>1 DEF PeerStep, Open, Break, RotateCert, Receive, TypeOK
<1>2. CASE Reject(s) \/ Accept(s) \/ Queue(s) \/ RecvFails(s) \/ Write(s) \/ SenderExits(s)
  BY <1>2 DEF Reject, Accept, Queue, RecvFails, Write, SenderExits
<1>3. CASE Take(s) \/ WorkerExits(s) \/ \E j \in Jobs : Report(s, j)
  BY <1>3 DEF Take, WorkerExits, Report, TypeOK
<1> QED
  BY <1>1, <1>2, <1>3 DEF SessionStep

\* Only Open starts a session, when every other is new or gone.
LEMMA Begins ==
    ASSUME TypeOK, NEW s \in Sessions, PeerStep(s) \/ SessionStep(s)
    PROVE  \/ Open(s)
           \/ recv'[s] \notin {"new", "gone"} => recv[s] \notin {"new", "gone"}
<1>1. CASE PeerStep(s)
  BY <1>1 DEF PeerStep, Break, RotateCert, Receive, Arrives
<1>2. CASE SessionStep(s)
  BY <1>2 DEF SessionStep, Reject, Accept, Queue, RecvFails, Take, WorkerExits, Report, Write, SenderExits, TypeOK
<1> QED
  BY <1>1, <1>2

\* The worker of a session runs its mutations one at a time, and an associate that dials has
\* mutations of two sessions under way only once one of the sessions is over.
THEOREM MutationsTakeTurns == Spec => []MutationsInTurn
<1>1. Init => TurnsInv
  <2> SUFFICES ASSUME Init PROVE TurnsInv
    OBVIOUS
  <2>1. TypeOK
    BY TypeInit, SessionAssumption
  <2>2. Range(<<>>) = {}
    BY DEF Range
  <2>3. \A s \in Sessions : OneWorker(s) /\ Lives(s)
    BY <2>2 DEF Init, OneWorker, Lives
  <2> QED
    BY <2>1, <2>3 DEF TurnsInv, OneAtATime, Init
<1>2. TurnsInv /\ [Next]_vars => TurnsInv'
  <2> SUFFICES ASSUME TurnsInv, [Next]_vars PROVE TurnsInv'
    OBVIOUS
  <2>0. TypeOK'
    BY TypeNext, SessionAssumption DEF TurnsInv
  <2>1. CASE UNCHANGED vars
    BY <2>0, <2>1 DEF vars, TurnsInv, OneAtATime, OneWorker, Lives
  <2>2. ASSUME NEW s \in Sessions, PeerStep(s) \/ SessionStep(s) PROVE TurnsInv'
    <3>1. ASSUME NEW t \in Sessions PROVE OneWorker(t)' /\ Lives(t)'
      <4>1. CASE t = s
        BY <2>2, <4>1, OwnWorker
      <4>2. CASE t # s
        BY <2>2, <4>2, LocalStep, OthersWork DEF TurnsInv, OneWorker, Lives
      <4> QED
        BY <4>1, <4>2
    <3>2. OneAtATime'
      <4> SUFFICES ASSUME DialsHome, NEW t \in Sessions, NEW u \in Sessions,
                          recv'[t] \notin {"new", "gone"}, recv'[u] \notin {"new", "gone"}
                   PROVE  t = u
        BY DEF OneAtATime
      <4>1. \A v \in Sessions \ {s} : recv'[v] = recv[v]
        BY <2>2, LocalStep DEF TurnsInv
      <4>2. CASE Open(s)
        BY <4>1, <4>2 DEF Open
      <4>3. CASE recv'[s] \notin {"new", "gone"} => recv[s] \notin {"new", "gone"}
        BY <4>1, <4>3 DEF TurnsInv, OneAtATime
      <4> QED
        BY <2>2, <4>2, <4>3, Begins DEF TurnsInv
    <3> QED
      BY <2>0, <3>1, <3>2 DEF TurnsInv
  <2> QED
    BY <2>1, <2>2 DEF Next
<1>3. TurnsInv => MutationsInTurn
  <2> SUFFICES ASSUME TurnsInv PROVE MutationsInTurn
    OBVIOUS
  <2>1. ASSUME NEW s \in Sessions \ done, running[s] \ ReadOnly # {} PROVE recv[s] \notin {"new", "gone"}
    BY <2>1 DEF TurnsInv, Lives
  <2> QED
    BY <2>1 DEF TurnsInv, OneAtATime, OneWorker, MutationsInTurn
<1> QED
  BY <1>1, <1>2, <1>3, PTL DEF Spec
=============================================================================
