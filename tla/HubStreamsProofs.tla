-------------------------- MODULE HubStreamsProofs --------------------------
(***************************************************************************)
(* Proofs about HubStreams, for any hosts, connections, senders, configs   *)
(* and channel capacity.                                                   *)
(***************************************************************************)
EXTENDS HubStreams, TLAPS

\* A sender that has nothing left to send to is idle, one that has stays typed.
LEMMA ContinueType ==
    ASSUME NEW rec \in SenderType, NEW hs \in SUBSET Hosts, HubAssumption
    PROVE  Continue(rec, hs) \in SenderType /\ Continue(rec, hs).pc # "push"
  BY DEF Continue, Idle, SenderType, Request, Frames, HubAssumption

LEMMA SenderFields ==
    ASSUME NEW rec \in SenderType
    PROVE  /\ rec.frame \in Frames /\ rec.frame.cfg \in Cfgs
           /\ rec.todo \in SUBSET Hosts /\ rec.conn \in Streams \cup {NoStream}
           /\ [rec EXCEPT !.pc = "snapshot"] \in SenderType
<1>1. /\ rec.frame \in Frames /\ rec.todo \in SUBSET Hosts
      /\ rec.conn \in Streams \cup {NoStream}
  BY DEF SenderType
<1>2. rec.frame.cfg \in Cfgs
  BY <1>1 DEF Frames
<1>3. [rec EXCEPT !.pc = "snapshot"] \in SenderType
  BY DEF SenderType
<1> QED
  BY <1>1, <1>2, <1>3

LEMMA FrameTypes ==
    ASSUME HubAssumption
    PROVE  /\ Request \in Frames /\ Idle \in SenderType /\ Idle.pc = "idle"
           /\ \A c \in Cfgs : Ack(c) \in Frames /\ Config(c) \in Frames
  BY DEF Request, Idle, SenderType, Frames, HubAssumption, Ack, Config

\* Updated writes one of the statuses or nothing.
LEMMA UpdatedType ==
    ASSUME TypeOK, NEW h \in Hosts,
           NEW st \in {"enrolling", "online", "offline", "error"}
    PROVE  Updated(h, st) \in [Hosts -> {"absent", "enrolling", "online",
                                         "offline", "error", "removed"}]
  BY DEF TypeOK, Updated, Known

LEMMA TypeInit == Init => TypeOK
  BY FrameTypes, HubAssumption DEF Init, TypeOK, HubAssumption

LEMMA NextType == TypeOK /\ [Next]_vars => TypeOK'
<1> USE HubAssumption
<1> SUFFICES ASSUME TypeOK, [Next]_vars PROVE TypeOK'
  OBVIOUS
<1>1. ASSUME NEW h \in Hosts, Enroll(h) PROVE TypeOK'
  BY <1>1 DEF Enroll, TypeOK, peerVars
<1>2. ASSUME NEW h \in Hosts, EnrollReturns(h) PROVE TypeOK'
  BY <1>2, UpdatedType DEF EnrollReturns, TypeOK, peerVars
<1>3. ASSUME NEW h \in Hosts, RemoveHost(h) PROVE TypeOK'
  BY <1>3 DEF RemoveHost, TypeOK, peerVars
<1>4. ASSUME NEW s \in Streams, Hello(s) PROVE TypeOK'
  BY <1>4 DEF Hello, TypeOK, peerVars, hostVars
<1>5. ASSUME NEW s \in Streams, Register(s) PROVE TypeOK'
  <2>1. HostOf[s] \in Hosts /\ Ack(cfg) \in Frames
    BY FrameTypes DEF HubAssumption, TypeOK
  <2>2. <<Ack(cfg)>> \in Seq(Frames) /\ Len(<<Ack(cfg)>>) = 1
    BY <2>1
  <2>3. send' \in [Streams -> Seq(Frames)]
    BY <1>5, <2>2 DEF Register, TypeOK
  <2>4. \A t \in Streams : Len(send'[t]) <= QueueCap
    BY <1>5, <2>2 DEF Register, TypeOK, HubAssumption
  <2> QED
    BY <1>5, <2>1, <2>3, <2>4 DEF Register, TypeOK, peerVars, hostVars
<1>6. ASSUME NEW s \in Streams, SetOnline(s) PROVE TypeOK'
  <2>1. HostOf[s] \in Hosts
    BY DEF HubAssumption
  <2> QED
    BY <1>6, <2>1, UpdatedType DEF SetOnline, TypeOK, peerVars
<1>7. ASSUME NEW s \in Streams, StreamEnds(s) PROVE TypeOK'
  BY <1>7 DEF StreamEnds, TypeOK, peerVars, hostVars
<1>8. ASSUME NEW s \in Streams, Unlist(s) PROVE TypeOK'
  BY <1>8 DEF Unlist, TypeOK, peerVars, hostVars, HubAssumption
<1>9. ASSUME NEW s \in Streams, SetOffline(s) PROVE TypeOK'
  <2>1. HostOf[s] \in Hosts
    BY DEF HubAssumption
  <2> QED
    BY <1>9, <2>1, UpdatedType DEF SetOffline, TypeOK, peerVars
<1>10. ASSUME NEW s \in Streams, SendFrame(s) PROVE TypeOK'
  <2>1. send' \in [Streams -> Seq(Frames)]
        /\ \A t \in Streams : Len(send'[t]) <= QueueCap
    BY <1>10 DEF SendFrame, TypeOK, HubAssumption
  <2> DEFINE f == IF send[s] = <<>> THEN Nil ELSE Head(send[s])
  <2>2. f.cfg \in Cfgs
    <3>1. CASE send[s] = <<>>
      BY <3>1 DEF Nil, HubAssumption
    <3>2. CASE send[s] # <<>>
      <4>1. Head(send[s]) \in Frames
        BY <3>2 DEF TypeOK
      <4> QED
        BY <3>2, <4>1 DEF Frames
    <3> QED
      BY <3>1, <3>2
  <2>3. peer' \in [Streams -> {"waiting", "up", "refused"}]
    BY <1>10 DEF SendFrame, TypeOK
  <2>4. applied' \in [Streams -> Cfgs]
    <3>1. applied' = applied \/ applied' = [applied EXCEPT ![s] = f.cfg]
      BY <1>10 DEF SendFrame
    <3> QED
      BY <3>1, <2>2 DEF TypeOK
  <2> QED
    BY <1>10, <2>1, <2>3, <2>4 DEF SendFrame, TypeOK, hostVars
<1>11. ASSUME NEW p \in Senders, NEW h \in Hosts, Dispatch(p, h) PROVE TypeOK'
  BY <1>11, FrameTypes DEF Dispatch, Calling, TypeOK, SenderType, peerVars, hostVars
<1>12. ASSUME NEW p \in Senders, NEW h \in Hosts, Lookup(p, h) PROVE TypeOK'
  <2>1. sender[p] \in SenderType
    BY DEF TypeOK
  <2>2. /\ Continue(sender[p], sender[p].todo \ {h}) \in SenderType
        /\ Continue(sender[p], sender[p].todo \ {h}).pc # "push"
    BY <2>1, ContinueType, SenderFields
  <2>3. conns[h] # NoStream =>
          [pc |-> "push", frame |-> sender[p].frame,
           todo |-> sender[p].todo \ {h}, conn |-> conns[h]] \in SenderType
    BY <2>1, SenderFields DEF TypeOK, SenderType
  <2> QED
    BY <1>12, <2>2, <2>3 DEF Lookup, TypeOK, peerVars, hostVars
<1>13. ASSUME NEW p \in Senders, RefreshAll(p) PROVE TypeOK'
  BY <1>13, FrameTypes DEF RefreshAll, Calling, TypeOK, SenderType, peerVars, hostVars
<1>14. ASSUME NEW p \in Admins, NEW c \in Cfgs, PutSettings(p, c) PROVE TypeOK'
  BY <1>14, FrameTypes
     DEF PutSettings, Calling, TypeOK, SenderType, peerVars, hostVars, HubAssumption
<1>15. ASSUME NEW p \in Senders, SetIntervals(p) PROVE TypeOK'
  <2>1. sender[p] \in SenderType
    BY DEF TypeOK
  <2>2. /\ [sender[p] EXCEPT !.pc = "snapshot"] \in SenderType
        /\ sender[p].frame.cfg \in Cfgs
    BY <2>1, SenderFields
  <2> QED
    BY <1>15, <2>2 DEF SetIntervals, TypeOK, peerVars, hostVars
<1>16. ASSUME NEW p \in Senders, Snapshot(p) PROVE TypeOK'
  <2> DEFINE hs == {h \in Hosts : conns[h] # NoStream}
  <2>1. Continue(sender[p], hs) \in SenderType /\ Continue(sender[p], hs).pc # "push"
    BY ContinueType DEF TypeOK
  <2> QED
    BY <1>16, <2>1 DEF Snapshot, TypeOK, peerVars, hostVars
<1>17. ASSUME NEW p \in Senders, Push(p) PROVE TypeOK'
  <2>1. sender[p] \in SenderType
    BY DEF TypeOK
  <2>2. /\ Continue(sender[p], sender[p].todo) \in SenderType
        /\ Continue(sender[p], sender[p].todo).pc # "push"
    BY <2>1, SenderFields, ContinueType
  <2>3. /\ sender[p].frame \in Frames
        /\ sender[p].conn \in Streams \cup {NoStream}
    BY <2>1, SenderFields
  <2> DEFINE c == sender[p].conn
  <2>4. /\ c \in Streams
        /\ \/ send' = send
           \/ /\ Len(send[c]) < QueueCap
              /\ send' = [send EXCEPT ![c] = Append(send[c], sender[p].frame)]
    BY <1>17 DEF Push, TypeOK
  <2>5. /\ send' \in [Streams -> Seq(Frames)]
        /\ \A t \in Streams : Len(send'[t]) <= QueueCap
    <3>1. CASE send' = send
      BY <3>1 DEF TypeOK
    <3>2. CASE send' # send
      <4>1. /\ Append(send[c], sender[p].frame) \in Seq(Frames)
            /\ Len(Append(send[c], sender[p].frame)) = Len(send[c]) + 1
        BY <2>3, <2>4 DEF TypeOK
      <4>2. Len(send[c]) + 1 <= QueueCap
        BY <2>4, <3>2 DEF TypeOK, HubAssumption
      <4>3. send' \in [Streams -> Seq(Frames)]
        <5>1. send \in [Streams -> Seq(Frames)]
          BY DEF TypeOK
        <5> QED
          BY <2>4, <3>2, <4>1, <5>1
      <4>4. \A t \in Streams : Len(send'[t]) <= QueueCap
        <5>1. \A t \in Streams \ {c} : send'[t] = send[t]
          BY <2>4, <3>2 DEF TypeOK
        <5>2. send'[c] = Append(send[c], sender[p].frame)
          BY <2>4, <3>2 DEF TypeOK
        <5>3. \A t \in Streams : Len(send[t]) <= QueueCap
          BY DEF TypeOK
        <5> QED
          BY <4>1, <4>2, <5>1, <5>2, <5>3
      <4> QED
        BY <4>3, <4>4
    <3> QED
      BY <3>1, <3>2
  <2>6. lossy' \subseteq Streams
    BY <1>17, <2>4 DEF Push, TypeOK
  <2>7. /\ sender' \in [Senders -> SenderType]
        /\ \A q \in Senders : sender'[q].pc = "push" => sender'[q].conn \in Streams
    BY <1>17, <2>2 DEF Push, TypeOK
  <2> QED
    BY <1>17, <2>5, <2>6, <2>7 DEF Push, TypeOK, peerVars, hostVars
<1>18. ASSUME NEW p \in Senders, PushPanics(p) PROVE TypeOK'
  BY <1>18, FrameTypes DEF PushPanics, TypeOK, SenderType, peerVars, hostVars
<1>19. CASE Restart
  BY <1>19, FrameTypes DEF Restart, TypeOK, peerVars, Known, HubAssumption
<1>20. CASE UNCHANGED vars
  BY <1>20 DEF vars, TypeOK, peerVars, hostVars
<1> QED
  BY <1>1, <1>2, <1>3, <1>4, <1>5, <1>6, <1>7, <1>8, <1>9, <1>10, <1>11, <1>12,
     <1>13, <1>14, <1>15, <1>16, <1>17, <1>18, <1>19, <1>20
     DEF Next, HostStep, StreamStep, SenderStep

\* The types and the capacity of the send channels (make(chan, 16)).
THEOREM TypeCorrect == Spec => []TypeOK
  BY TypeInit, NextType, PTL DEF Spec

-----------------------------------------------------------------------------
(* What makes OneOpenChannel and HelloAckFirst inductive: a stream that is   *)
(* not registered yet is out of everyone's reach, an entry of conns belongs  *)
(* to its host, and the HelloAck of a stream whose peer still waits heads    *)
(* the queue.                                                                *)

Unregistered == {"new", "accepted"}

Reach ==
    /\ \A s \in Streams : pc[s] \in Unregistered => s \notin closed /\ peer[s] = "waiting"
    /\ \A h \in Hosts : conns[h] # NoStream => HostOf[conns[h]] = h
    /\ \A p \in Senders : sender[p].pc = "push" => pc[sender[p].conn] \notin Unregistered

AckHeads ==
    \A s \in Streams : pc[s] \in {"registered", "serving"} /\ peer[s] = "waiting" =>
        send[s] # <<>> /\ Head(send[s]).kind = "ack"

HubInv == TypeOK /\ Reach /\ OneOpenChannel /\ AckHeads /\ HelloAckFirst

LEMMA InitHubInv == Init => HubInv
  BY TypeInit, HubAssumption
     DEF Init, HubInv, Reach, OneOpenChannel, AckHeads, HelloAckFirst, Unregistered,
         Idle, HubAssumption

\* Steps of the registry and of the senders before they reach a channel leave
\* the streams alone.
LEMMA ReachQuiet ==
    ASSUME HubInv, UNCHANGED <<conns, pc, peerVars, send, closed>>,
           \A p \in Senders : sender'[p].pc = "push" =>
               \/ sender'[p].conn = sender[p].conn /\ sender[p].pc = "push"
               \/ \E h \in Hosts : conns[h] # NoStream /\ sender'[p].conn = conns[h]
    PROVE  Reach' /\ OneOpenChannel' /\ AckHeads' /\ HelloAckFirst'
<1>1. ASSUME NEW h \in Hosts, conns[h] # NoStream
      PROVE  pc[conns[h]] \notin Unregistered
  <2>1. conns[h] \in Streams /\ HostOf[conns[h]] = h
    BY <1>1 DEF HubInv, TypeOK, Reach
  <2>2. pc[conns[h]] \in {"registered", "serving", "ended"}
    BY <2>1 DEF HubInv, OneOpenChannel
  <2> QED
    BY <2>2 DEF Unregistered
<1>2. Reach'
  BY <1>1 DEF HubInv, Reach, peerVars
<1> QED
  BY <1>2 DEF HubInv, OneOpenChannel, AckHeads, HelloAckFirst, peerVars

LEMMA NextHubInv == HubInv /\ [Next]_vars => HubInv'
<1> SUFFICES ASSUME HubInv, [Next]_vars PROVE HubInv'
  OBVIOUS
<1> USE HubAssumption
<1>t. TypeOK /\ TypeOK'
  BY NextType DEF HubInv
<1>0. ASSUME UNCHANGED <<conns, pc, peerVars, send, closed>>,
             \A p \in Senders : sender'[p].pc = "push" =>
               \/ sender'[p].conn = sender[p].conn /\ sender[p].pc = "push"
               \/ \E h \in Hosts : conns[h] # NoStream /\ sender'[p].conn = conns[h]
      PROVE  HubInv'
  BY <1>t, <1>0, ReachQuiet DEF HubInv
<1>1. ASSUME NEW h \in Hosts, HostStep(h) PROVE HubInv'
  BY <1>1, <1>0 DEF HostStep, Enroll, EnrollReturns, RemoveHost
<1>2. ASSUME NEW s \in Streams, Hello(s) PROVE HubInv'
  BY <1>2, <1>t
     DEF Hello, TypeOK, HubInv, Reach, OneOpenChannel, AckHeads, HelloAckFirst,
         Unregistered, peerVars, HubAssumption
<1>3. ASSUME NEW s \in Streams, Register(s) PROVE HubInv'
  <2> DEFINE h == HostOf[s]
  <2>1. /\ h \in Hosts /\ s # NoStream
        /\ pc[s] = "accepted" /\ pc' = [pc EXCEPT ![s] = "registered"]
        /\ send' = [send EXCEPT ![s] = <<Ack(cfg)>>]
        /\ closed' = closed \cup ({conns[h]} \ {NoStream})
        /\ conns' = [conns EXCEPT ![h] = s]
        /\ UNCHANGED <<peer, sender>>
    BY <1>3 DEF Register, HubAssumption, peerVars
  <2>2. s \notin closed /\ peer[s] = "waiting" /\ conns[h] # s
    BY <2>1 DEF HubInv, Reach, OneOpenChannel, Unregistered
  <2>3. Reach'
    BY <2>1, <2>2, <1>t
       DEF TypeOK, HubInv, Reach, OneOpenChannel, Unregistered, HubAssumption
  <2>4. OneOpenChannel'
    BY <2>1, <2>2, <1>t DEF TypeOK, HubInv, Reach, OneOpenChannel, HubAssumption
  <2>5. AckHeads'
    BY <2>1, <1>t DEF TypeOK, HubInv, AckHeads, Ack
  <2>6. HelloAckFirst'
    BY <2>1 DEF HubInv, HelloAckFirst
  <2> QED
    BY <2>3, <2>4, <2>5, <2>6, <1>t DEF HubInv
<1>4. ASSUME NEW s \in Streams, SetOnline(s) \/ StreamEnds(s) \/ SetOffline(s)
      PROVE HubInv'
  BY <1>4, <1>t
     DEF SetOnline, StreamEnds, SetOffline, TypeOK, HubInv, Reach, OneOpenChannel,
         AckHeads, HelloAckFirst, Unregistered, peerVars, hostVars, HubAssumption
<1>5. ASSUME NEW s \in Streams, Unlist(s) PROVE HubInv'
  BY <1>5, <1>t
     DEF Unlist, TypeOK, HubInv, Reach, OneOpenChannel,
         AckHeads, HelloAckFirst, Unregistered, peerVars, hostVars, HubAssumption
<1>6. ASSUME NEW s \in Streams, SendFrame(s) PROVE HubInv'
  <2>1. /\ pc[s] = "serving"
        /\ peer[s] = "waiting" => send[s] # <<>> /\ Head(send[s]).kind = "ack"
    BY <1>6 DEF SendFrame, HubInv, AckHeads
  <2>2. /\ peer'[s] # "refused" /\ peer'[s] # "waiting"
        /\ \A t \in Streams \ {s} : peer'[t] = peer[t] /\ send'[t] = send[t]
        /\ UNCHANGED <<conns, pc, closed, sender>>
    BY <1>6, <2>1, <1>t DEF SendFrame, TypeOK, HubInv, HelloAckFirst
  <2>3. Reach'
    BY <2>1, <2>2, <1>t DEF HubInv, Reach, Unregistered, TypeOK
  <2>4. OneOpenChannel' /\ HelloAckFirst'
    BY <2>2 DEF HubInv, OneOpenChannel, HelloAckFirst
  <2>5. AckHeads'
    BY <2>2 DEF HubInv, AckHeads
  <2> QED
    BY <2>3, <2>4, <2>5, <1>t DEF HubInv
<1>7. ASSUME NEW p \in Senders, NEW h \in Hosts, Dispatch(p, h) PROVE HubInv'
  BY <1>7, <1>0, <1>t DEF Dispatch, Calling, TypeOK
<1>8. ASSUME NEW p \in Senders, NEW h \in Hosts, Lookup(p, h) PROVE HubInv'
  <2>1. Continue(sender[p], sender[p].todo \ {h}).pc # "push"
    BY DEF Continue, Idle
  <2> QED
    BY <1>8, <1>0, <1>t, <2>1 DEF Lookup, TypeOK
<1>9. ASSUME NEW p \in Senders, RefreshAll(p) PROVE HubInv'
  BY <1>9, <1>0, <1>t DEF RefreshAll, Calling, TypeOK
<1>10. ASSUME NEW p \in Admins, NEW c \in Cfgs, PutSettings(p, c) PROVE HubInv'
  BY <1>10, <1>0, <1>t DEF PutSettings, Calling, TypeOK, HubAssumption
<1>11. ASSUME NEW p \in Senders, SetIntervals(p) PROVE HubInv'
  <2>1. sender[p] \in SenderType
    BY <1>t DEF TypeOK
  <2>2. [sender[p] EXCEPT !.pc = "snapshot"].pc = "snapshot"
    BY <2>1 DEF SenderType
  <2> QED
    BY <1>11, <1>0, <1>t, <2>2 DEF SetIntervals, TypeOK
<1>12. ASSUME NEW p \in Senders, Snapshot(p) PROVE HubInv'
  <2>1. \A hs : Continue(sender[p], hs).pc # "push"
    BY DEF Continue, Idle
  <2> QED
    BY <1>12, <1>0, <1>t, <2>1 DEF Snapshot, TypeOK
<1>13. ASSUME NEW p \in Senders, Push(p) PROVE HubInv'
  <2> DEFINE c == sender[p].conn
  <2>1. /\ c \in Streams /\ pc[c] \notin Unregistered
        /\ \A q \in Senders : sender'[q].pc = "push" => sender'[q] = sender[q]
        /\ UNCHANGED <<conns, pc, closed, peer>>
    <3>1. \A hs : Continue(sender[p], hs).pc # "push"
      BY DEF Continue, Idle
    <3> QED
      BY <1>13, <1>t, <3>1 DEF Push, TypeOK, HubInv, Reach, peerVars
  <2>2. \A t \in Streams : send[t] # <<>> =>
          send'[t] # <<>> /\ Head(send'[t]) = Head(send[t])
    <3>1. sender[p].frame \in Frames
      BY <1>t, SenderFields DEF TypeOK
    <3>2. ASSUME NEW q \in Seq(Frames), NEW f \in Frames, q # <<>>
          PROVE  Append(q, f) # <<>> /\ Head(Append(q, f)) = Head(q)
      <4>1. Len(q) > 0 /\ Append(q, f)[1] = q[1] /\ Len(Append(q, f)) = Len(q) + 1
        BY <3>2
      <4> QED
        BY <3>2, <4>1
    <3>3. send[c] \in Seq(Frames)
      BY <2>1, <1>t DEF TypeOK
    <3>4. send' = send \/ send' = [send EXCEPT ![c] = Append(send[c], sender[p].frame)]
      BY <1>13 DEF Push
    <3>5. send[c] # <<>> =>
            /\ Append(send[c], sender[p].frame) # <<>>
            /\ Head(Append(send[c], sender[p].frame)) = Head(send[c])
      BY <3>1, <3>2, <3>3
    <3> HIDE DEF c
    <3> QED
      BY <2>1, <3>4, <3>5, <1>t DEF TypeOK
  <2>3. Reach'
    BY <2>1, <1>t DEF HubInv, Reach, TypeOK
  <2>4. OneOpenChannel' /\ HelloAckFirst'
    BY <2>1 DEF HubInv, OneOpenChannel, HelloAckFirst
  <2>5. AckHeads'
    BY <2>1, <2>2 DEF HubInv, AckHeads
  <2> QED
    BY <2>3, <2>4, <2>5, <1>t DEF HubInv
<1>14. ASSUME NEW p \in Senders, PushPanics(p) PROVE HubInv'
  BY <1>14, <1>0, <1>t DEF PushPanics, TypeOK, Idle
<1>15. CASE Restart
  <2>1. /\ \A s \in Streams : pc'[s] = IF pc[s] = "new" THEN "new" ELSE "done"
        /\ \A h \in Hosts : conns'[h] = NoStream
        /\ \A p \in Senders : sender'[p].pc = "idle"
        /\ UNCHANGED <<send, closed, peer>>
    BY <1>15 DEF Restart, peerVars, Idle
  <2>2. Reach' /\ AckHeads' /\ HelloAckFirst'
    BY <2>1 DEF HubInv, Reach, AckHeads, HelloAckFirst, Unregistered
  <2>3. OneOpenChannel'
    BY <2>1 DEF OneOpenChannel, HubAssumption
  <2> QED
    BY <2>2, <2>3, <1>t DEF HubInv
<1>16. CASE UNCHANGED vars
  BY <1>16, <1>0 DEF vars
<1> QED
  BY <1>1, <1>2, <1>3, <1>4, <1>5, <1>6, <1>7, <1>8, <1>9, <1>10, <1>11, <1>12,
     <1>13, <1>14, <1>15, <1>16 DEF Next, StreamStep, SenderStep

\* hub.go's register: nothing sent to the host can overtake the HelloAck.
THEOREM HelloAckIsFirst == Spec => []HelloAckFirst
  BY InitHubInv, NextHubInv, PTL DEF Spec, HubInv

\* The open channels are the ones conns names, one per connected host.
THEOREM OneOpenChannelPerHost == Spec => []OneOpenChannel
  BY InitHubInv, NextHubInv, PTL DEF Spec, HubInv
-----------------------------------------------------------------------------
\* No host stays online after the last of its streams is gone: every SetOnline
\* of serveStream is followed by the SetOffline of its deferred unregister.
LEMMA OnlineStep ==
    TypeOK /\ OnlineHasStream /\ [Next]_vars => OnlineHasStream'
<1> SUFFICES ASSUME TypeOK, OnlineHasStream, [Next]_vars,
                    NEW h \in Hosts, status'[h] = "online"
             PROVE  \E s \in Streams : /\ HostOf[s] = h
                                       /\ pc'[s] \in {"serving", "ended", "unlisted"}
  BY DEF OnlineHasStream
<1> USE HubAssumption
<1>0. ASSUME status' = status \/ status'[h] = status[h],
             \A s \in Streams : pc[s] \in {"serving", "ended", "unlisted"} =>
                                  pc'[s] \in {"serving", "ended", "unlisted"}
      PROVE  \E s \in Streams : /\ HostOf[s] = h
                                /\ pc'[s] \in {"serving", "ended", "unlisted"}
  BY <1>0 DEF OnlineHasStream
<1>1. ASSUME NEW g \in Hosts, HostStep(g) PROVE status'[h] = status[h] /\ pc' = pc
  BY <1>1 DEF HostStep, Enroll, EnrollReturns, RemoveHost, Updated, TypeOK
<1>2. ASSUME NEW s \in Streams, StreamStep(s), ~SetOnline(s), ~SetOffline(s)
      PROVE  /\ status' = status
             /\ \A t \in Streams : pc[t] \in {"serving", "ended", "unlisted"} =>
                                     pc'[t] \in {"serving", "ended", "unlisted"}
  BY <1>2 DEF StreamStep, Hello, Register, StreamEnds, Unlist, SendFrame, hostVars, TypeOK
<1>3. ASSUME NEW s \in Streams, SetOnline(s)
      PROVE  \E t \in Streams : /\ HostOf[t] = h
                                /\ pc'[t] \in {"serving", "ended", "unlisted"}
  <2>1. CASE HostOf[s] = h
    BY <1>3, <2>1 DEF SetOnline, TypeOK
  <2>2. CASE HostOf[s] # h
    <3>1. status'[h] = status[h]
      BY <1>3, <2>2 DEF SetOnline, Updated, TypeOK
    <3>2. \A t \in Streams : pc[t] \in {"serving", "ended", "unlisted"} =>
                               pc'[t] \in {"serving", "ended", "unlisted"}
      BY <1>3 DEF SetOnline, TypeOK
    <3> QED
      BY <1>0, <3>1, <3>2
  <2> QED
    BY <2>1, <2>2
<1>4. ASSUME NEW s \in Streams, SetOffline(s)
      PROVE  \E t \in Streams : /\ HostOf[t] = h
                                /\ pc'[t] \in {"serving", "ended", "unlisted"}
  <2>1. HostOf[s] \in Hosts /\ HostOf[s] # h /\ status'[h] = status[h]
    BY <1>4 DEF SetOffline, Updated, Known, TypeOK, HubAssumption
  <2>2. PICK t \in Streams : HostOf[t] = h /\ pc[t] \in {"serving", "ended", "unlisted"}
    BY <2>1 DEF OnlineHasStream
  <2> QED
    BY <1>4, <2>1, <2>2 DEF SetOffline, TypeOK
<1>5. ASSUME NEW p \in Senders, SenderStep(p) PROVE status' = status /\ pc' = pc
  BY <1>5 DEF SenderStep, Dispatch, Lookup, RefreshAll, PutSettings, SetIntervals,
              Snapshot, Push, PushPanics, hostVars
<1>6. ASSUME Restart PROVE FALSE
  <2>1. status'[h] = IF Known(h) THEN "offline" ELSE status[h]
    BY <1>6 DEF Restart
  <2> QED
    BY <2>1 DEF Known
<1>7. CASE UNCHANGED vars
  BY <1>7, <1>0 DEF vars, hostVars
<1> QED
  BY <1>0, <1>1, <1>2, <1>3, <1>4, <1>5, <1>6, <1>7 DEF Next

THEOREM OnlineImpliesStream == Spec => []OnlineHasStream
<1>1. Init => OnlineHasStream
  BY DEF Init, OnlineHasStream
<1> QED
  BY <1>1, OnlineStep, TypeInit, NextType, PTL DEF Spec

\* A stream that ends late leaves the entry of the one that superseded it (the
\* cur == c check of unregister).
THEOREM OwnerUnlists == Spec => OnlyOwnerUnlists
<1>1. TypeOK /\ [Next]_vars =>
        [\A h \in Hosts : conns[h] # NoStream /\ conns'[h] = NoStream =>
           \/ restarts' # restarts
           \/ pc[conns[h]] = "ended" /\ pc'[conns[h]] = "unlisted"]_vars
  <2> SUFFICES ASSUME TypeOK, [Next]_vars, NEW h \in Hosts,
                      conns[h] # NoStream, conns'[h] = NoStream
               PROVE  \/ restarts' # restarts
                      \/ pc[conns[h]] = "ended" /\ pc'[conns[h]] = "unlisted"
    OBVIOUS
  <2> USE HubAssumption
  <2>1. ASSUME NEW g \in Hosts, HostStep(g) PROVE FALSE
    BY <2>1 DEF HostStep, Enroll, EnrollReturns, RemoveHost
  <2>2. ASSUME NEW s \in Streams, StreamStep(s), ~Register(s), ~Unlist(s) PROVE FALSE
    BY <2>2 DEF StreamStep, Hello, SetOnline, StreamEnds, SetOffline, SendFrame
  <2>3. ASSUME NEW s \in Streams, Register(s) PROVE FALSE
    BY <2>3 DEF Register, TypeOK, HubAssumption
  <2>4. ASSUME NEW s \in Streams, Unlist(s)
        PROVE  pc[conns[h]] = "ended" /\ pc'[conns[h]] = "unlisted"
    BY <2>4 DEF Unlist, TypeOK
  <2>5. ASSUME NEW p \in Senders, SenderStep(p) PROVE FALSE
    BY <2>5 DEF SenderStep, Dispatch, Lookup, RefreshAll, PutSettings, SetIntervals,
                Snapshot, Push, PushPanics
  <2>6. CASE Restart
    BY <2>6 DEF Restart, TypeOK
  <2>7. CASE UNCHANGED vars
    BY <2>7 DEF vars
  <2> QED
    BY <2>1, <2>2, <2>3, <2>4, <2>5, <2>6, <2>7 DEF Next
<1> QED
  BY <1>1, TypeInit, NextType, PTL DEF Spec, OnlyOwnerUnlists
-----------------------------------------------------------------------------
(* The intervals reach every connected host. *)

Pushed(q) == {i \in 1..Len(q) : q[i].kind # "request"}

\* An associate handed config a last has v once it has read all of q.
EndsWith(q, a, v) ==
    \/ Pushed(q) = {} /\ a = v
    \/ \E i \in Pushed(q) : q[i].cfg = v /\ \A j \in Pushed(q) : j <= i

\* Only a PUT /settings carries a config, the one h.cfg holds once it is set.
CarriersInv ==
    \A p \in Senders :
        /\ sender[p].frame.kind \in {"request", "config"}
        /\ sender[p].pc = "set" => sender[p].frame.kind = "config"
        /\ sender[p].frame.kind = "config" =>
               p \in Admins /\ (sender[p].pc # "set" => sender[p].frame.cfg = cfg)

\* The broadcast of p has still to come to host h.
Due(p, h) ==
    /\ sender[p].frame.kind = "config"
    /\ \/ sender[p].pc = "snapshot"
       \/ sender[p].pc \in {"each", "push"} /\ h \in sender[p].todo
       \/ sender[p].pc = "push" /\ sender[p].conn = conns[h]

Delivered(h) == EndsWith(send[conns[h]], applied[conns[h]], cfg)

DeliveryInv ==
    \A h \in Hosts : conns[h] \notin lossy \cup {NoStream} =>
        Delivered(h) \/ \E p \in Senders : Due(p, h)

ConfigInv == HubInv /\ CarriersInv /\ DeliveryInv

LEMMA EndsAppend ==
    ASSUME NEW q \in Seq(Frames), NEW a, NEW v, NEW f \in Frames
    PROVE  /\ f.kind # "request" => EndsWith(Append(q, f), a, f.cfg)
           /\ f.kind = "request" /\ EndsWith(q, a, v) => EndsWith(Append(q, f), a, v)
<1> DEFINE n == Len(q)
           r == Append(q, f)
<1>1. n \in Nat /\ Len(r) = n + 1 /\ r[n + 1] = f /\ \A i \in 1..n : r[i] = q[i]
  OBVIOUS
<1> HIDE DEF n, r
<1>2. Pushed(q) = {i \in 1..n : r[i].kind # "request"} /\ Pushed(r) = {i \in 1..(n + 1) : r[i].kind # "request"}
  BY <1>1 DEF Pushed, n
<1>3. ASSUME f.kind # "request" PROVE EndsWith(r, a, f.cfg)
  <2>1. n + 1 \in Pushed(r) /\ \A j \in Pushed(r) : j <= n + 1
    BY <1>1, <1>2, <1>3
  <2> QED
    BY <1>1, <2>1 DEF EndsWith
<1>4. ASSUME f.kind = "request", EndsWith(q, a, v) PROVE EndsWith(r, a, v)
  <2>1. Pushed(r) = Pushed(q)
    BY <1>1, <1>2, <1>4
  <2>2. \A i \in Pushed(q) : r[i] = q[i]
    BY <1>1, <1>2
  <2> QED
    BY <1>4, <2>1, <2>2 DEF EndsWith
<1> QED
  BY <1>3, <1>4 DEF r

LEMMA EndsTail ==
    ASSUME NEW q \in Seq(Frames), q # <<>>, NEW a, NEW v, EndsWith(q, a, v)
    PROVE  EndsWith(Tail(q), IF Head(q).kind = "request" THEN a ELSE Head(q).cfg, v)
<1> DEFINE r == Tail(q)
           n == Len(r)
<1>1. n \in Nat /\ Len(q) = n + 1 /\ Head(q) = q[1] /\ \A i \in 1..n : r[i] = q[i + 1]
  OBVIOUS
<1> HIDE DEF n, r
<1>2. /\ Pushed(q) = {i \in 1..(n + 1) : q[i].kind # "request"}
      /\ Pushed(r) = {i \in 1..n : q[i + 1].kind # "request"}
  BY <1>1 DEF Pushed, n
<1>3. CASE Pushed(r) = {}
  <2>1. \A i \in Pushed(q) : i = 1
    <3>1. ASSUME NEW i \in Pushed(q), i # 1 PROVE FALSE
      <4>1. i - 1 \in 1..n /\ (i - 1) + 1 = i /\ q[i].kind # "request"
        BY <1>1, <1>2, <3>1
      <4>2. q[(i - 1) + 1].kind # "request"
        BY <4>1
      <4> QED
        BY <1>2, <1>3, <4>1, <4>2
    <3> QED
      BY <3>1
  <2>2. Head(q).kind = "request" <=> Pushed(q) = {}
    BY <1>1, <1>2, <2>1
  <2>3. (IF Head(q).kind = "request" THEN a ELSE Head(q).cfg) = v
    BY <1>1, <2>1, <2>2 DEF EndsWith
  <2> QED
    BY <1>3, <2>3 DEF EndsWith, r
<1>4. CASE Pushed(r) # {}
  <2>1. \A j \in Pushed(r) : j + 1 \in Pushed(q) /\ j \in 1..n
    BY <1>1, <1>2
  <2>2. PICK i \in Pushed(q) : q[i].cfg = v /\ \A j \in Pushed(q) : j <= i
    BY <1>4, <2>1 DEF EndsWith
  <2>3. i \in 1..(n + 1) /\ i # 1
    BY <1>1, <1>2, <1>4, <2>1, <2>2
  <2>4. i - 1 \in 1..n /\ (i - 1) + 1 = i
    BY <1>1, <2>3
  <2>5. i - 1 \in Pushed(r) /\ r[i - 1] = q[i]
    <3>1. r[i - 1] = q[(i - 1) + 1]
      BY <1>1, <2>4
    <3> QED
      BY <1>2, <2>2, <2>4, <3>1
  <2>6. \A j \in Pushed(r) : j <= i - 1
    <3>1. ASSUME NEW j \in Pushed(r) PROVE j <= i - 1
      <4>1. j + 1 <= i /\ j \in 1..n
        BY <2>1, <2>2
      <4> QED
        BY <1>1, <2>3, <4>1
    <3> QED
      BY <3>1
  <2> QED
    BY <2>2, <2>5, <2>6 DEF EndsWith, r
<1> QED
  BY <1>3, <1>4

\* What a host ends up with is the last config of its channel.
LEMMA EndsIsLast ==
    ASSUME TypeOK, NEW s \in Streams, EndsWith(send[s], applied[s], cfg)
    PROVE  LastConfig(s) = cfg
<1> DEFINE q == send[s]
<1>1. Pushed(q) = {i \in 1..Len(q) : q[i].kind # "request"} /\ \A i \in Pushed(q) : i \in Nat
  BY DEF TypeOK, Pushed
<1>2. LastConfig(s) = IF Pushed(q) = {} THEN applied[s]
                      ELSE q[CHOOSE i \in Pushed(q) : \A j \in Pushed(q) : j <= i].cfg
  BY DEF LastConfig, Pushed
<1>3. ASSUME NEW i \in Pushed(q), \A j \in Pushed(q) : j <= i, q[i].cfg = cfg PROVE LastConfig(s) = cfg
  <2> DEFINE k == CHOOSE k \in Pushed(q) : \A j \in Pushed(q) : j <= k
  <2>1. k \in Pushed(q) /\ \A j \in Pushed(q) : j <= k
    BY <1>3
  <2>2. k = i
    <3> HIDE DEF k, q
    <3> QED
      BY <1>1, <1>3, <2>1
  <2> QED
    BY <1>2, <1>3, <2>2
<1> QED
  BY <1>2, <1>3 DEF EndsWith

LEMMA CarriersNext == HubInv /\ CarriersInv /\ (\A a, b \in Admins : a = b) /\ [Next]_vars => CarriersInv'
<1> SUFFICES ASSUME HubInv, CarriersInv, \A a, b \in Admins : a = b, [Next]_vars PROVE CarriersInv'
  OBVIOUS
<1>t. TypeOK /\ sender \in [Senders -> SenderType]
  BY DEF HubInv, TypeOK
<1>i. Idle.frame.kind = "request" /\ Idle.pc = "idle" /\ Request.kind = "request"
  BY DEF Idle, Request
<1>1. ASSUME UNCHANGED cfg,
             \A p \in Senders :
                 \/ sender'[p] = sender[p]
                 \/ sender'[p].frame.kind = "request" /\ sender'[p].pc # "set"
                 \/ /\ sender'[p].frame = sender[p].frame
                    /\ sender'[p].pc # "set" /\ sender[p].pc # "set"
      PROVE  CarriersInv'
  BY <1>1 DEF CarriersInv
<1>2. ASSUME NEW h \in Hosts, HostStep(h) PROVE CarriersInv'
  BY <1>1, <1>2 DEF HostStep, Enroll, EnrollReturns, RemoveHost
<1>3. ASSUME NEW s \in Streams, StreamStep(s) PROVE CarriersInv'
  BY <1>1, <1>3 DEF StreamStep, Hello, Register, SetOnline, StreamEnds, Unlist, SetOffline, SendFrame
<1>4. ASSUME NEW p \in Senders, NEW h \in Hosts, Dispatch(p, h) PROVE CarriersInv'
  BY <1>t, <1>i, <1>1, <1>4 DEF Dispatch, Calling
<1>5. ASSUME NEW p \in Senders, RefreshAll(p) PROVE CarriersInv'
  BY <1>t, <1>i, <1>1, <1>5 DEF RefreshAll, Calling
<1>6. ASSUME NEW p \in Senders, p \in Admins, NEW c \in Cfgs, PutSettings(p, c) PROVE CarriersInv'
  <2>1. /\ UNCHANGED cfg /\ \A q \in Senders \ {p} : sender'[q] = sender[q]
        /\ sender'[p].pc = "set" /\ sender'[p].frame.kind = "config"
    BY <1>t, <1>6 DEF PutSettings, Calling, Config
  <2> QED
    BY <1>6, <2>1 DEF CarriersInv
<1>7. ASSUME NEW p \in Senders, SetIntervals(p) PROVE CarriersInv'
  <2>1. /\ cfg' = sender[p].frame.cfg /\ \A q \in Senders \ {p} : sender'[q] = sender[q]
        /\ sender[p].pc = "set" /\ sender'[p].pc = "snapshot" /\ sender'[p].frame = sender[p].frame
    BY <1>t, <1>7 DEF SetIntervals, SenderType
  <2>2. \A q \in Senders \ {p} : sender[q].frame.kind # "config"
    BY <2>1 DEF CarriersInv
  <2> QED
    BY <2>1, <2>2 DEF CarriersInv
<1>8. ASSUME NEW p \in Senders, NEW hs,
             UNCHANGED cfg, sender' = [sender EXCEPT ![p] = Continue(sender[p], hs)], sender[p].pc # "set"
      PROVE  CarriersInv'
  <2>1. \/ Continue(sender[p], hs) = Idle
        \/ Continue(sender[p], hs).frame = sender[p].frame /\ Continue(sender[p], hs).pc = "each"
    BY DEF Continue
  <2> QED
    BY <1>t, <1>i, <1>1, <1>8, <2>1
<1>9. ASSUME NEW p \in Senders, Snapshot(p) PROVE CarriersInv'
  BY <1>8, <1>9 DEF Snapshot
<1>10. ASSUME NEW p \in Senders, NEW h \in Hosts, Lookup(p, h) PROVE CarriersInv'
  <2>1. CASE conns[h] = NoStream
    BY <1>8, <1>10, <2>1 DEF Lookup
  <2>2. CASE conns[h] # NoStream
    <3>1. /\ UNCHANGED cfg /\ \A q \in Senders \ {p} : sender'[q] = sender[q]
          /\ sender[p].pc = "each" /\ sender'[p].pc = "push" /\ sender'[p].frame = sender[p].frame
      BY <1>t, <1>10, <2>2 DEF Lookup
    <3> QED
      BY <1>1, <3>1
  <2> QED
    BY <2>1, <2>2
<1>11. ASSUME NEW p \in Senders, Push(p) PROVE CarriersInv'
  BY <1>8, <1>11 DEF Push
<1>12. ASSUME NEW p \in Senders, PushPanics(p) PROVE CarriersInv'
  BY <1>t, <1>i, <1>1, <1>12 DEF PushPanics
<1>13. CASE Restart
  BY <1>13, <1>i DEF Restart, CarriersInv
<1>14. CASE UNCHANGED vars
  BY <1>1, <1>14 DEF vars
<1> QED
  BY <1>2, <1>3, <1>4, <1>5, <1>6, <1>7, <1>9, <1>10, <1>11, <1>12, <1>13, <1>14 DEF Next, SenderStep

\* A step that keeps what a host is due and what its channel ends with.
LEMMA DeliveryKept ==
    ASSUME ConfigInv, UNCHANGED <<cfg, lossy>>,
           NEW h \in Hosts, conns'[h] \notin lossy' \cup {NoStream}, conns'[h] = conns[h],
           send'[conns[h]] = send[conns[h]], applied'[conns[h]] = applied[conns[h]],
           \A p \in Senders : Due(p, h) => Due(p, h)'
    PROVE  Delivered(h)' \/ \E p \in Senders : Due(p, h)'
<1>1. Delivered(h) \/ \E p \in Senders : Due(p, h)
  BY DEF ConfigInv, DeliveryInv
<1>2. Delivered(h) => Delivered(h)'
  BY DEF Delivered
<1> QED
  BY <1>1, <1>2

LEMMA DeliveryStream ==
    ASSUME ConfigInv, NEW s \in Streams, StreamStep(s), NEW h \in Hosts,
           conns'[h] \notin lossy' \cup {NoStream}
    PROVE  Delivered(h)' \/ \E p \in Senders : Due(p, h)'
<1> USE HubAssumption
<1>t. TypeOK /\ OneOpenChannel /\ AckHeads /\ HelloAckFirst
  BY DEF ConfigInv, HubInv
<1>1. UNCHANGED <<cfg, lossy, sender>>
  BY DEF StreamStep, Hello, Register, SetOnline, StreamEnds, Unlist, SetOffline, SendFrame
<1>2. \A p \in Senders : conns'[h] = conns[h] => (Due(p, h) => Due(p, h)')
  BY <1>1 DEF Due
<1>3. CASE Hello(s) \/ SetOnline(s) \/ StreamEnds(s) \/ SetOffline(s) \/ Unlist(s)
  <2>1. conns'[h] = conns[h] /\ UNCHANGED <<send, applied>>
    BY <1>3, <1>t DEF Hello, SetOnline, StreamEnds, SetOffline, Unlist, peerVars, TypeOK
  <2> QED
    BY <1>1, <1>2, <2>1, DeliveryKept
<1>4. CASE Register(s)
  <2>1. /\ conns' = [conns EXCEPT ![HostOf[s]] = s] /\ send' = [send EXCEPT ![s] = <<Ack(cfg)>>]
        /\ UNCHANGED applied /\ pc[s] = "accepted"
    BY <1>4 DEF Register, peerVars
  <2>2. CASE h = HostOf[s]
    <3>1. conns'[h] = s /\ send'[s] = <<Ack(cfg)>>
      BY <2>1, <2>2, <1>t DEF TypeOK
    <3>2. Pushed(<<Ack(cfg)>>) = {1} /\ <<Ack(cfg)>>[1].cfg = cfg
      BY DEF Pushed, Ack
    <3>3. EndsWith(<<Ack(cfg)>>, applied'[s], cfg)
      BY <3>2 DEF EndsWith
    <3> QED
      BY <1>1, <3>1, <3>3 DEF Delivered
  <2>3. CASE h # HostOf[s]
    <3>1. conns'[h] = conns[h] /\ conns[h] \in Streams
      BY <1>1, <2>1, <2>3, <1>t DEF TypeOK
    <3>2. conns[h] # s
      BY <2>1, <3>1, <1>t, <2>3 DEF ConfigInv, HubInv, Reach
    <3>3. send'[conns[h]] = send[conns[h]]
      BY <2>1, <3>1, <3>2, <1>t DEF TypeOK
    <3> QED
      BY <1>1, <1>2, <2>1, <3>1, <3>3, DeliveryKept
  <2> QED
    BY <2>2, <2>3
<1>5. CASE SendFrame(s)
  <2>1. UNCHANGED conns /\ conns[h] \in Streams
    BY <1>5, <1>t DEF SendFrame, TypeOK
  <2>2. CASE conns[h] # s
    <3>1. send'[conns[h]] = send[conns[h]] /\ applied'[conns[h]] = applied[conns[h]]
      BY <1>5, <1>t, <2>1, <2>2 DEF SendFrame, TypeOK
    <3> QED
      BY <1>1, <1>2, <2>1, <3>1, DeliveryKept
  <2>3. CASE conns[h] = s
    <3> DEFINE q == send[s]
               a == applied[s]
    <3>1. s \notin closed /\ HostOf[s] = h
      BY <1>t, <2>1, <2>3 DEF ConfigInv, HubInv, Reach, OneOpenChannel
    <3>2. pc[s] = "serving" /\ q # <<>> /\ q \in Seq(Frames) /\ Head(q) \in Frames
      BY <1>5, <1>t, <3>1 DEF SendFrame, TypeOK
    <3>3. Head(q).kind \in {"ack", "config", "request"}
      BY <3>2 DEF Frames
    <3>4. Head(q).kind = "config" => peer[s] = "up"
      BY <1>t, <3>2 DEF AckHeads, HelloAckFirst, TypeOK
    <3>5. send'[s] = Tail(q)
      BY <1>5, <1>t, <3>2 DEF SendFrame, TypeOK
    <3>6. applied'[s] = IF Head(q).kind = "request" THEN a ELSE Head(q).cfg
      BY <1>5, <1>t, <3>2, <3>3, <3>4 DEF SendFrame, TypeOK
    <3>7. EndsWith(q, a, cfg) => EndsWith(Tail(q), IF Head(q).kind = "request" THEN a ELSE Head(q).cfg, cfg)
      <4> HIDE DEF q, a
      <4> QED
        BY <3>2, EndsTail
    <3>8. Delivered(h) => Delivered(h)'
      BY <1>1, <2>1, <2>3, <3>5, <3>6, <3>7 DEF Delivered
    <3>9. Delivered(h) \/ \E p \in Senders : Due(p, h)
      BY <1>1, <2>1 DEF ConfigInv, DeliveryInv
    <3> QED
      BY <1>2, <2>1, <3>8, <3>9
  <2> QED
    BY <2>2, <2>3
<1> QED
  BY <1>3, <1>4, <1>5 DEF StreamStep

LEMMA DeliverySender ==
    ASSUME ConfigInv, NEW p \in Senders, SenderStep(p), NEW h \in Hosts,
           conns'[h] \notin lossy' \cup {NoStream}
    PROVE  Delivered(h)' \/ \E r \in Senders : Due(r, h)'
<1> USE HubAssumption
<1>t. /\ TypeOK /\ OneOpenChannel /\ CarriersInv /\ sender \in [Senders -> SenderType]
      /\ sender[p] \in SenderType
  BY DEF ConfigInv, HubInv, TypeOK
<1>1. UNCHANGED <<conns, applied>> /\ conns[h] \in Streams
  BY <1>t DEF SenderStep, Dispatch, RefreshAll, PutSettings, Calling, SetIntervals, Snapshot, Lookup, Push,
     PushPanics, peerVars, TypeOK
<1>2. \A r \in Senders \ {p} : Due(r, h) => Due(r, h)'
  <2>1. \A r \in Senders \ {p} : sender'[r] = sender[r]
    BY <1>t DEF SenderStep, Dispatch, RefreshAll, PutSettings, Calling, SetIntervals, Snapshot, Lookup, Push, PushPanics
  <2> QED
    BY <1>1, <2>1 DEF Due
<1>3. CASE sender[p].pc = "idle" /\ UNCHANGED <<cfg, lossy, send>>
  <2>1. ~Due(p, h)
    BY <1>3 DEF Due
  <2> QED
    BY <1>1, <1>2, <1>3, <2>1, DeliveryKept
<1>4. CASE SetIntervals(p)
  <2>1. sender[p].frame.kind = "config" /\ sender'[p].pc = "snapshot" /\ sender'[p].frame = sender[p].frame
    BY <1>4, <1>t DEF SetIntervals, SenderType, CarriersInv
  <2>2. Due(p, h)'
    BY <2>1 DEF Due
  <2> QED
    BY <2>2
<1>5. CASE Snapshot(p)
  <2> DEFINE hs == {g \in Hosts : conns[g] # NoStream}
  <2>1. h \in hs
    BY <1>1
  <2>2. sender'[p] = [pc |-> "each", frame |-> sender[p].frame, todo |-> hs, conn |-> NoStream]
    BY <1>5, <1>t, <2>1 DEF Snapshot, Continue
  <2>3. Due(p, h) => Due(p, h)'
    BY <2>1, <2>2 DEF Due
  <2>4. UNCHANGED <<cfg, lossy, send>>
    BY <1>5 DEF Snapshot
  <2> QED
    BY <1>1, <1>2, <2>3, <2>4, DeliveryKept
<1>6. ASSUME NEW g \in Hosts, Lookup(p, g) PROVE Delivered(h)' \/ \E r \in Senders : Due(r, h)'
  <2>1. UNCHANGED <<cfg, lossy, send>> /\ sender[p].pc = "each"
    BY <1>6 DEF Lookup
  <2>2. ASSUME Due(p, h) PROVE Due(p, h)'
    <3>1. sender[p].frame.kind = "config" /\ h \in sender[p].todo
      BY <2>1, <2>2 DEF Due
    <3>2. CASE conns[g] = NoStream
      <4>1. h \in sender[p].todo \ {g}
        BY <1>1, <3>1, <3>2
      <4>2. sender'[p] = [pc |-> "each", frame |-> sender[p].frame, todo |-> sender[p].todo \ {g}, conn |-> NoStream]
        BY <1>6, <1>t, <3>2, <4>1 DEF Lookup, Continue
      <4> QED
        BY <3>1, <4>1, <4>2 DEF Due
    <3>3. CASE conns[g] # NoStream
      <4>1. sender'[p] = [pc |-> "push", frame |-> sender[p].frame, todo |-> sender[p].todo \ {g}, conn |-> conns[g]]
        BY <1>6, <1>t, <3>3 DEF Lookup
      <4>2. h \in sender[p].todo \ {g} \/ conns'[h] = conns[g]
        BY <1>1, <3>1
      <4> QED
        BY <3>1, <4>1, <4>2 DEF Due
    <3> QED
      BY <3>2, <3>3
  <2> QED
    BY <1>1, <1>2, <2>1, <2>2, DeliveryKept
<1>7. CASE Push(p)
  <2> DEFINE c == sender[p].conn
             f == sender[p].frame
  <2>1. c \in Streams /\ f \in Frames /\ f.kind \in {"request", "config"} /\ sender[p].pc = "push"
    BY <1>7, <1>t, SenderFields DEF Push, TypeOK, CarriersInv
  <2>2. f.kind = "config" => f.cfg = cfg
    BY <1>t, <2>1 DEF CarriersInv
  <2>3. UNCHANGED cfg /\ sender'[p] = Continue(sender[p], sender[p].todo)
    BY <1>7, <1>t DEF Push
  <2>4. conns[h] \notin lossy
    BY <1>7, <1>1 DEF Push
  <2>5. Delivered(h) \/ \E r \in Senders : Due(r, h)
    BY <1>1, <2>4 DEF ConfigInv, DeliveryInv
  <2>6. CASE conns[h] = c
    <3>1. send'[c] = Append(send[c], f) /\ send[c] \in Seq(Frames)
      BY <1>7, <1>1, <1>t, <2>1, <2>6 DEF Push, TypeOK
    <3>2. CASE f.kind = "config"
      <4>1. EndsWith(Append(send[c], f), applied[c], f.cfg)
        BY <2>1, <3>1, <3>2, EndsAppend
      <4> QED
        BY <1>1, <2>2, <2>3, <2>6, <3>1, <3>2, <4>1 DEF Delivered
    <3>3. CASE f.kind = "request"
      <4>1. ~Due(p, h)
        BY <3>3 DEF Due
      <4>2. EndsWith(send[c], applied[c], cfg) => EndsWith(Append(send[c], f), applied[c], cfg)
        BY <2>1, <3>1, <3>3, EndsAppend
      <4>3. Delivered(h) => Delivered(h)'
        BY <1>1, <2>3, <2>6, <3>1, <4>2 DEF Delivered
      <4> QED
        BY <1>2, <2>5, <4>1, <4>3
    <3> QED
      BY <2>1, <3>2, <3>3
  <2>7. CASE conns[h] # c
    <3>1. send'[conns[h]] = send[conns[h]]
      BY <1>7, <1>1, <1>t, <2>1, <2>7 DEF Push, TypeOK
    <3>2. Delivered(h) => Delivered(h)'
      BY <1>1, <2>3, <3>1 DEF Delivered
    <3>3. ASSUME Due(p, h) PROVE Due(p, h)'
      <4>1. f.kind = "config" /\ h \in sender[p].todo
        BY <2>1, <2>7, <3>3 DEF Due
      <4>2. sender'[p] = [pc |-> "each", frame |-> f, todo |-> sender[p].todo, conn |-> NoStream]
        BY <2>3, <4>1 DEF Continue
      <4> QED
        BY <4>1, <4>2 DEF Due
    <3> QED
      BY <1>2, <2>5, <3>2, <3>3
  <2> QED
    BY <2>6, <2>7
<1>8. CASE PushPanics(p)
  <2>1. /\ sender[p].pc = "push" /\ sender[p].conn \in closed /\ UNCHANGED <<cfg, send>>
        /\ lossy' = lossy \cup ({conns[g] : g \in sender[p].todo} \ {NoStream})
    BY <1>8 DEF PushPanics
  <2>2. h \notin sender[p].todo /\ conns[h] \notin lossy
    BY <1>1, <2>1
  <2>3. conns[h] \notin closed
    BY <1>1 DEF ConfigInv, HubInv, Reach, OneOpenChannel
  <2>4. ~Due(p, h)
    BY <2>1, <2>2, <2>3 DEF Due
  <2>5. Delivered(h) \/ \E r \in Senders : Due(r, h)
    BY <1>1, <2>2 DEF ConfigInv, DeliveryInv
  <2>6. Delivered(h) => Delivered(h)'
    BY <1>1, <2>1 DEF Delivered
  <2> QED
    BY <1>2, <2>4, <2>5, <2>6
<1>9. ASSUME (\E g \in Hosts : Dispatch(p, g)) \/ RefreshAll(p) \/ \E c \in Cfgs : PutSettings(p, c)
      PROVE  sender[p].pc = "idle" /\ UNCHANGED <<cfg, lossy, send>>
  BY <1>9 DEF Dispatch, RefreshAll, PutSettings, Calling
<1> QED
  BY <1>3, <1>4, <1>5, <1>6, <1>7, <1>8, <1>9 DEF SenderStep

LEMMA ConfigNext == ConfigInv /\ (\A a, b \in Admins : a = b) /\ [Next]_vars => ConfigInv'
<1> SUFFICES ASSUME ConfigInv, \A a, b \in Admins : a = b, [Next]_vars PROVE ConfigInv'
  OBVIOUS
<1>1. HubInv' /\ CarriersInv'
  BY NextHubInv, CarriersNext DEF ConfigInv
<1>2. ASSUME NEW h \in Hosts, conns'[h] \notin lossy' \cup {NoStream}
      PROVE  Delivered(h)' \/ \E p \in Senders : Due(p, h)'
  <2>1. ASSUME NEW g \in Hosts, HostStep(g) PROVE UNCHANGED <<conns, send, applied, cfg, lossy, sender>>
    BY <2>1 DEF HostStep, Enroll, EnrollReturns, RemoveHost, peerVars
  <2>2. ASSUME UNCHANGED <<conns, send, applied, cfg, lossy, sender>>
        PROVE  Delivered(h)' \/ \E p \in Senders : Due(p, h)'
    <3>1. \A p \in Senders : Due(p, h) => Due(p, h)'
      BY <2>2 DEF Due
    <3> QED
      BY <1>2, <2>2, <3>1, DeliveryKept
  <2>3. ~Restart
    BY <1>2 DEF Restart
  <2>4. CASE UNCHANGED vars
    BY <2>2, <2>4 DEF vars, peerVars
  <2> QED
    BY <1>2, <2>1, <2>2, <2>3, <2>4, DeliveryStream, DeliverySender DEF Next
<1> QED
  BY <1>1, <1>2 DEF ConfigInv, DeliveryInv

\* With one administrator, once its calls are over every connected host has the current intervals,
\* unless a full channel or a panic cost it a frame (hub.go's SetIntervals, register and sendTo).
THEOREM ConfigIsDelivered ==
    ASSUME \A a, b \in Admins : a = b
    PROVE  Spec => []ConfigDelivered
<1>1. Init => ConfigInv
  BY InitHubInv DEF Init, ConfigInv, CarriersInv, DeliveryInv, Idle, Request
<1>2. ConfigInv /\ [Next]_vars => ConfigInv'
  BY ConfigNext
<1>3. ConfigInv => ConfigDelivered
  <2> SUFFICES ASSUME ConfigInv, \A p \in Senders : sender[p].pc = "idle",
                      NEW h \in Hosts, conns[h] \notin lossy \cup {NoStream}
               PROVE  LastConfig(conns[h]) = cfg
    BY DEF ConfigDelivered
  <2>1. ~\E p \in Senders : Due(p, h)
    BY DEF Due
  <2>2. conns[h] \in Streams /\ TypeOK
    BY DEF ConfigInv, HubInv, TypeOK
  <2> QED
    BY <2>1, <2>2, EndsIsLast DEF ConfigInv, DeliveryInv, Delivered
<1> QED
  BY <1>1, <1>2, <1>3, PTL DEF Spec
=============================================================================
