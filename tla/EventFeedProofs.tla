---------------------------- MODULE EventFeedProofs ----------------------------
(***************************************************************************)
(* Proofs about EventFeed, for any size of the ring and of a subscriber's  *)
(* channel and any number of messages, faults and restarts.                *)
(***************************************************************************)
EXTENDS EventFeed, SequenceTheorems, TLAPS

LEMMA ConcatFacts ==
    ASSUME NEW S, NEW s \in Seq(S), NEW t \in Seq(S)
    PROVE  /\ s \o t \in Seq(S) /\ Len(s \o t) = Len(s) + Len(t)
           /\ Len(s) \in Nat /\ Len(t) \in Nat
           /\ \A i \in 1 .. Len(s) : (s \o t)[i] = s[i]
           /\ \A i \in Len(s) + 1 .. Len(s) + Len(t) : (s \o t)[i] = t[i - Len(s)]
<1>1. Len(s) \in Nat /\ Len(t) \in Nat
  OBVIOUS
<1>2. /\ s \o t \in Seq(S) /\ Len(s \o t) = Len(s) + Len(t)
      /\ \A i \in 1 .. Len(s) + Len(t) : (s \o t)[i] = IF i <= Len(s) THEN s[i] ELSE t[i - Len(s)]
  BY ConcatProperties
<1> QED
  BY <1>1, <1>2

-----------------------------------------------------------------------------
(* Types *)

ManagerTypes ==
    /\ truth \in Nat /\ job \in {"none", "live", "over", "gone"} /\ unsent \in [Kinds -> Nat]
    /\ seq \in Nat /\ ring \in Seq(Messages) /\ Len(ring) <= RingSize
    /\ restarts \in Nat /\ made \in Nat /\ faults \in Nat
HandlerTypes ==
    /\ chan \in Seq(Messages) /\ Len(chan) <= ChanCap
    /\ handler \in {"none", "subscribed", "loop", "looked", "lagged"}
    /\ last \in Nat /\ told \in Nat
LinkTypes ==
    wire \in Seq(Frames) /\ es \in {"closed", "waiting", "open"} /\ lastId \in Nat
PageTypes ==
    /\ view \in Nat /\ wanted \in Nat
    /\ pass \in {"none", "begun", "asked", "read"} /\ reply \in Nat
    /\ queued \in BOOLEAN /\ soon \in BOOLEAN /\ failed \in BOOLEAN
    /\ card \in {"none", "live", "over"} /\ waiting \in BOOLEAN /\ held \in BOOLEAN
    /\ asked \in BOOLEAN
    /\ instance \in Nat /\ stale \in BOOLEAN /\ passed \subseteq {"view", "job"}

LEMMA TypesAreTypeOK ==
    TypeOK <=> ManagerTypes /\ HandlerTypes /\ LinkTypes /\ PageTypes
  BY DEF TypeOK, ManagerTypes, HandlerTypes, LinkTypes, PageTypes

LEMMA TypesInit == FeedAssumption /\ Init => TypeOK
<1> SUFFICES ASSUME FeedAssumption, Init PROVE TypeOK
  OBVIOUS
<1>1. ManagerTypes /\ HandlerTypes
  BY DEF FeedAssumption, Init, ManagerTypes, HandlerTypes, Kinds
<1>2. LinkTypes
  BY DEF Init, LinkTypes
<1>3. PageTypes
  BY DEF Init, PageTypes
<1> QED
  BY <1>1, <1>2, <1>3, TypesAreTypeOK

LEMMA TrimmedFacts ==
    ASSUME NEW m \in Messages, ManagerTypes, FeedAssumption
    PROVE  LET r == Trimmed(Append(ring, m)) IN
           /\ r \in Seq(Messages) /\ Len(r) <= RingSize /\ Len(r) \in Nat \ {0}
           /\ Len(r) <= Len(ring) + 1
           /\ \A i \in 1 .. Len(r) - 1 : r[i] = ring[i + (Len(ring) + 1 - Len(r))]
           /\ r[Len(r)] = m
<1> DEFINE s == Append(ring, m)
<1>1. /\ ring \in Seq(Messages) /\ Len(ring) \in Nat /\ Len(ring) <= RingSize
      /\ RingSize \in Nat \ {0}
  BY DEF ManagerTypes, FeedAssumption
<1>2. /\ s \in Seq(Messages) /\ s # <<>> /\ Len(s) = Len(ring) + 1 /\ s[Len(ring) + 1] = m
      /\ \A i \in 1 .. Len(ring) : s[i] = ring[i]
  BY <1>1, AppendProperties
<1> HIDE DEF s
<1>3. CASE Len(s) > RingSize
  <2>1. /\ Tail(s) \in Seq(Messages) /\ Len(Tail(s)) = Len(s) - 1
        /\ \A i \in 1 .. Len(Tail(s)) : Tail(s)[i] = s[i + 1]
    BY <1>2, HeadTailProperties
  <2>2. Trimmed(s) = Tail(s)
    BY <1>3 DEF Trimmed
  <2> QED
    <3>1. Len(Tail(s)) = Len(ring) /\ Len(ring) = RingSize
      BY <1>1, <1>2, <1>3, <2>1
    <3>2. \A i \in 1 .. Len(ring) - 1 : i + 1 \in 1 .. Len(ring) /\ Tail(s)[i] = ring[i + 1]
      BY <1>1, <1>2, <2>1, <3>1
    <3>3. Tail(s)[Len(ring)] = m
      BY <1>1, <1>2, <2>1, <3>1
    <3> QED
      <4> HIDE DEF s
      <4>1. /\ Tail(s) \in Seq(Messages) /\ Len(Tail(s)) <= RingSize
            /\ Len(Tail(s)) \in Nat \ {0} /\ Len(Tail(s)) <= Len(ring) + 1
        BY <1>1, <2>1, <3>1
      <4>2. \A i \in 1 .. Len(Tail(s)) - 1 : Tail(s)[i] = ring[i + (Len(ring) + 1 - Len(Tail(s)))]
        <5>1. Len(ring) + 1 - Len(Tail(s)) = 1
          BY <1>1, <3>1
        <5> QED
          BY <3>1, <3>2, <5>1
      <4>3. Tail(s)[Len(Tail(s))] = m
        BY <3>1, <3>3
      <4> QED
        BY <2>2, <4>1, <4>2, <4>3 DEF s
<1>4. CASE Len(s) <= RingSize
  <2>1. Trimmed(s) = s
    BY <1>1, <1>2, <1>4 DEF Trimmed
  <2> QED
    BY <1>1, <1>2, <1>4, <2>1 DEF s
<1> QED
  BY <1>1, <1>2, <1>3, <1>4

\* What a replay copies out of the ring.
LEMMA NewerFacts ==
    ASSUME ManagerTypes, NEW k \in 0 .. Len(ring)
    PROVE  LET newer == SubSeq(ring, k + 1, Len(ring)) IN
           /\ newer \in Seq(Messages) /\ Len(newer) = Len(ring) - k /\ Len(newer) \in Nat
           /\ \A i \in 1 .. Len(newer) : newer[i] = ring[k + i]
<1>1. ring \in Seq(Messages) /\ Len(ring) \in Nat
  BY DEF ManagerTypes
<1>2. \A i \in k + 1 .. Len(ring) : ring[i] \in Messages
  BY <1>1
<1>3. k + 1 \in Int /\ Len(ring) \in Int
  BY <1>1
<1>4. /\ SubSeq(ring, k + 1, Len(ring)) \in Seq(Messages)
      /\ Len(SubSeq(ring, k + 1, Len(ring))) = IF k + 1 <= Len(ring) THEN Len(ring) - (k + 1) + 1 ELSE 0
      /\ \A i \in 1 .. Len(ring) - (k + 1) + 1 :
            SubSeq(ring, k + 1, Len(ring))[i] = ring[(k + 1) + i - 1]
  BY <1>2, <1>3, SubSeqProperties
<1> QED
  BY <1>1, <1>4

\* Writing frames keeps the wire to its type.
LEMMA WriteType ==
    ASSUME LinkTypes, NEW frames \in Seq(Frames), Write(frames)
    PROVE  wire' \in Seq(Frames)
  BY ConcatProperties DEF Write, LinkTypes

LEMMA FrameTypes ==
    /\ Resync \in Frames /\ <<Resync>> \in Seq(Frames)
    /\ \A m \in Messages : m \in Frames /\ <<m>> \in Seq(Frames) /\ <<Resync, m>> \in Seq(Frames)
    /\ Seq(Messages) \subseteq Seq(Frames)
<1>1. Messages \subseteq Frames /\ Resync \in Frames
  BY DEF Frames
<1> QED
  BY <1>1

\* Asking for a refresh, and asking the job store.
LEMMA RefreshType ==
    ASSUME ManagerTypes, PageTypes, Refresh
    PROVE  /\ wanted' \in Nat /\ pass' \in {"none", "begun", "asked", "read"}
           /\ queued' \in BOOLEAN /\ failed' \in BOOLEAN
<1>1. CASE StartPass
  BY <1>1 DEF Refresh, Asked, StartPass, ManagerTypes, PageTypes
<1>2. CASE queued' = TRUE /\ UNCHANGED <<pass, failed>>
  BY <1>2 DEF Refresh, Asked, ManagerTypes, PageTypes
<1> QED
  BY <1>1, <1>2 DEF Refresh

LEMMA ReconcileType ==
    ASSUME Reconcile
    PROVE  asked' \in BOOLEAN
  BY Zenon DEF Reconcile

LEMMA TypesNext ==
    ASSUME FeedAssumption, TypeOK, [Next]_vars
    PROVE  TypeOK'
<1> SUFFICES ManagerTypes' /\ HandlerTypes' /\ LinkTypes' /\ PageTypes'
  BY DEF TypeOK, ManagerTypes, HandlerTypes, LinkTypes, PageTypes
<1>0. ManagerTypes /\ HandlerTypes /\ LinkTypes /\ PageTypes
  BY TypesAreTypeOK
<1>1. CASE Change \/ JobEnds
  <2>1. ManagerTypes'
    <3>1. unsent' \in [Kinds -> Nat]
      BY <1>0, <1>1 DEF Change, JobEnds, ManagerTypes, Kinds
    <3> QED
      BY <1>0, <1>1, <3>1 DEF Change, JobEnds, ManagerTypes, brokerVars, counts
  <2>2. UNCHANGED <<handlerVars, linkVars, pageVars, passed>>
    BY <1>1 DEF Change, JobEnds
  <2> QED
    BY <1>0, <2>1, <2>2 DEF HandlerTypes, LinkTypes, PageTypes, handlerVars, linkVars, pageVars, refreshVars, jobVars
<1>2. ASSUME NEW kind \in Kinds, Publish(kind)
      PROVE  ManagerTypes' /\ HandlerTypes' /\ LinkTypes' /\ PageTypes'
  <2> DEFINE m == [id |-> seq + 1, kind |-> kind]
  <2>1. m \in Messages
    BY <1>0 DEF ManagerTypes, Messages
  <2>2. /\ ring' = Trimmed(Append(ring, m)) /\ seq' = seq + 1 /\ unsent[kind] > 0
        /\ unsent' = [unsent EXCEPT ![kind] = @ - 1]
        /\ UNCHANGED <<truth, job, handler, last, told, pageVars, linkVars, passed, counts>>
    BY <1>2 DEF Publish
  <2>3. ring' \in Seq(Messages) /\ Len(ring') <= RingSize
    BY <1>0, <2>1, <2>2, TrimmedFacts
  <2>4. unsent' \in [Kinds -> Nat]
    BY <1>0, <2>2 DEF ManagerTypes
  <2>5. ManagerTypes'
    BY <1>0, <2>2, <2>3, <2>4 DEF ManagerTypes, counts
  <2>6. chan' \in Seq(Messages) /\ Len(chan') <= ChanCap
    <3>1. \/ UNCHANGED chan
          \/ Len(chan) < ChanCap /\ chan' = Append(chan, m)
      BY <1>2 DEF Publish
    <3>2. chan \in Seq(Messages) /\ Len(chan) \in Nat /\ Len(chan) <= ChanCap /\ ChanCap \in Nat
      BY <1>0 DEF HandlerTypes, FeedAssumption
    <3> HIDE DEF m
    <3>3. Append(chan, m) \in Seq(Messages) /\ Len(Append(chan, m)) = Len(chan) + 1
      BY <2>1, <3>2, AppendProperties
    <3> QED
      BY <3>1, <3>2, <3>3
  <2> QED
    BY <1>0, <2>2, <2>5, <2>6 DEF HandlerTypes, LinkTypes, PageTypes, linkVars, pageVars, refreshVars, jobVars
<1>3. CASE Subscribe
  <2>1. Missed \subseteq {"view", "job"}
    BY DEF Missed
  <2>2. passed' \subseteq {"view", "job"}
    BY <1>0, <1>3, <2>1 DEF Subscribe, PageTypes
  <2>3. HandlerTypes' /\ LinkTypes'
    BY <1>0, <1>3, FeedAssumption DEF Subscribe, HandlerTypes, LinkTypes, FeedAssumption
  <2> QED
    BY <1>0, <1>3, <2>2, <2>3 DEF Subscribe, ManagerTypes, PageTypes, managerVars, brokerVars, pageVars, refreshVars, jobVars, counts
<1>4. CASE Resume
  <2>1. last' \in Nat /\ told' \in Nat /\ wire' \in Seq(Frames)
    <3>1. CASE UNCHANGED <<wire, last, told>>
      BY <1>0, <3>1 DEF HandlerTypes, LinkTypes
    <3>2. ASSUME NEW k \in 0 .. Len(ring), Write(SubSeq(ring, k + 1, Len(ring))), UNCHANGED told,
                 LET newer == SubSeq(ring, k + 1, Len(ring))
                 IN  last' = IF newer = <<>> THEN 0 ELSE newer[Len(newer)].id
          PROVE  last' \in Nat /\ told' \in Nat /\ wire' \in Seq(Frames)
      <4> DEFINE newer == SubSeq(ring, k + 1, Len(ring))
      <4>1. newer \in Seq(Messages) /\ Len(newer) \in Nat /\ Write(newer) /\ UNCHANGED told
            /\ last' = IF newer = <<>> THEN 0 ELSE newer[Len(newer)].id
        BY <1>0, <3>2, NewerFacts
      <4> HIDE DEF newer
      <4>2. newer # <<>> => newer[Len(newer)] \in Messages
        BY <4>1
      <4>3. wire' \in Seq(Frames)
        BY <1>0, <4>1, FrameTypes, WriteType
      <4> QED
        BY <1>0, <4>1, <4>2, <4>3 DEF Messages, HandlerTypes
    <3>3. CASE Write(<<Resync>>) /\ told' = seq /\ UNCHANGED last
      BY <1>0, <3>3, FrameTypes, WriteType DEF HandlerTypes, ManagerTypes
    <3> QED
      BY <1>4, <3>1, <3>2, <3>3 DEF Resume
  <2> QED
    BY <1>0, <1>4, <2>1 DEF Resume, ManagerTypes, HandlerTypes, LinkTypes, PageTypes, managerVars, brokerVars, pageVars, refreshVars, jobVars, counts
<1>5. CASE Deliver
  <2>1. /\ chan \in Seq(Messages) /\ chan # <<>> /\ Len(chan) \in Nat /\ Len(chan) <= ChanCap
        /\ chan' = Tail(chan) /\ ChanCap \in Nat
    BY <1>0, <1>5 DEF Deliver, HandlerTypes, FeedAssumption
  <2>2. Head(chan) \in Messages /\ chan' \in Seq(Messages) /\ Len(chan') = Len(chan) - 1
    BY <2>1, HeadTailProperties
  <2>3. \/ UNCHANGED <<wire, last>>
        \/ /\ Write(<<Resync, Head(chan)>>) \/ Write(<<Head(chan)>>)
           /\ last' = Head(chan).id
    BY <1>5 DEF Deliver
  <2>4. wire' \in Seq(Frames) /\ last' \in Nat
    BY <1>0, <2>2, <2>3, FrameTypes, WriteType DEF Messages, HandlerTypes, LinkTypes
  <2> QED
    BY <1>0, <1>5, <2>1, <2>2, <2>4 DEF Deliver, ManagerTypes, HandlerTypes, LinkTypes, PageTypes, managerVars, brokerVars, pageVars, refreshVars, jobVars, counts
<1>6. CASE LagLook
  BY <1>0, <1>6 DEF LagLook, ManagerTypes, HandlerTypes, LinkTypes, PageTypes, managerVars, brokerVars, linkVars, pageVars, refreshVars, jobVars, counts
<1>7. CASE LagCompare
  <2>1. wire' \in Seq(Frames) /\ told' \in Nat
    BY <1>0, <1>7, FrameTypes, WriteType DEF LagCompare, HandlerTypes, LinkTypes, ManagerTypes
  <2> QED
    BY <1>0, <1>7, <2>1 DEF LagCompare, ManagerTypes, HandlerTypes, LinkTypes, PageTypes, managerVars, brokerVars, pageVars, refreshVars, jobVars, counts
<1>8. CASE LagMark
  <2>1. Missed \subseteq {"view", "job"}
    BY DEF Missed
  <2> QED
    BY <1>0, <1>8, <2>1 DEF LagMark, ManagerTypes, HandlerTypes, LinkTypes, PageTypes, managerVars, brokerVars, linkVars, pageVars, refreshVars, jobVars, counts
<1>9. CASE Start
  <2>1. PageTypes'
    BY <1>0, <1>9, RefreshType DEF Start, ManagerTypes, PageTypes, jobVars
  <2> QED
    BY <1>0, <1>9, <2>1 DEF Start, ManagerTypes, HandlerTypes, LinkTypes, managerVars, brokerVars, handlerVars, counts
<1>10. CASE Receive
  <2>1. /\ wire \in Seq(Frames) /\ wire # <<>> /\ Head(wire) \in Frames /\ wire' \in Seq(Frames)
    BY <1>0, <1>10, HeadTailProperties DEF Receive, LinkTypes
  <2>2. lastId' \in Nat
    BY <1>0, <1>10, <2>1 DEF Receive, Frames, Messages, Resync, LinkTypes
  <2>3. PageTypes'
    <3>1. UNCHANGED <<view, reply, instance, stale>>
      BY <1>10 DEF Receive
    <3>2. CASE OnResync
      BY <1>0, <3>1, <3>2 DEF OnResync, Refresh, Reconcile, Asked, StartPass, MissedEnd, PageTypes, ManagerTypes
    <3>3. CASE OnJobEnd
      BY <1>0, <3>1, <3>3 DEF OnJobEnd, Hold, PageTypes
    <3>4. CASE OnChange
      BY <1>0, <3>1, <3>4 DEF OnChange, PageTypes
    <3> QED
      BY <1>10, <3>2, <3>3, <3>4 DEF Receive
  <2> QED
    BY <1>0, <1>10, <2>1, <2>2, <2>3 DEF Receive, ManagerTypes, HandlerTypes, LinkTypes, managerVars, brokerVars, handlerVars, counts
<1>11. CASE SoonFires
  <2>1. PageTypes'
    BY <1>0, <1>11, RefreshType DEF SoonFires, PageTypes, jobVars
  <2> QED
    BY <1>0, <1>11, <2>1 DEF SoonFires, ManagerTypes, HandlerTypes, LinkTypes, managerVars, brokerVars, handlerVars, linkVars, counts
<1>12. CASE Fetch \/ Load \/ LoadFails \/ PassEnds
  <2>1. PageTypes'
    <3>1. UNCHANGED <<soon, jobVars, instance, stale, passed, wanted>>
      BY <1>12 DEF Fetch, Load, LoadFails, PassEnds
    <3>2. CASE Fetch \/ Load
      BY <1>0, <3>1, <3>2 DEF Fetch, Load, PageTypes, ManagerTypes, jobVars
    <3>3. CASE LoadFails
      BY <1>0, <3>1, <3>3 DEF LoadFails, PageTypes, jobVars
    <3>4. CASE PassEnds
      BY <1>0, <3>1, <3>4 DEF PassEnds, PageTypes, jobVars
    <3> QED
      BY <1>12, <3>2, <3>3, <3>4
  <2>2. ManagerTypes'
    BY <1>0, <1>12 DEF Fetch, Load, LoadFails, PassEnds, ManagerTypes, managerVars, brokerVars, counts
  <2> QED
    BY <1>0, <1>12, <2>1, <2>2 DEF Fetch, Load, LoadFails, PassEnds, HandlerTypes, LinkTypes, handlerVars, linkVars
<1>13. CASE Post \/ Watch \/ HeldExpires \/ Reconciled \/ ReconcileFails
  <2>1. UNCHANGED <<refreshVars, instance, stale>>
    BY <1>13 DEF Post, Watch, HeldExpires, Reconciled, ReconcileFails, pageVars
  <2>2. passed' \subseteq {"view", "job"} /\ card' \in {"none", "live", "over"}
    BY <1>0, <1>13 DEF Post, Watch, HeldExpires, Reconciled, ReconcileFails, PageTypes, pageVars, jobVars
  <2>3. soon' \in BOOLEAN /\ waiting' \in BOOLEAN
    <3>1. soon' = soon \/ soon' = (soon \/ held)
      BY <1>13 DEF Post, Watch, HeldExpires, Reconciled, ReconcileFails, pageVars
    <3>2. waiting' = waiting \/ waiting' = ~held \/ waiting' = (waiting /\ job = "live")
      BY <1>13 DEF Post, Watch, HeldExpires, Reconciled, ReconcileFails, pageVars, jobVars
    <3> QED
      BY <1>0, <3>1, <3>2, Zenon DEF PageTypes
  <2>4. held' \in BOOLEAN /\ asked' \in BOOLEAN
    BY <1>0, <1>13 DEF Post, Watch, HeldExpires, Reconciled, ReconcileFails, PageTypes, pageVars, jobVars
  <2>5. PageTypes'
    BY <1>0, <2>1, <2>2, <2>3, <2>4 DEF PageTypes, refreshVars
  <2>6. ManagerTypes'
    BY <1>0, <1>13 DEF Post, Watch, HeldExpires, Reconciled, ReconcileFails, ManagerTypes, managerVars, brokerVars, counts
  <2> QED
    BY <1>0, <1>13, <2>5, <2>6 DEF Post, Watch, HeldExpires, Reconciled, ReconcileFails, HandlerTypes, LinkTypes, handlerVars, linkVars
<1>14. CASE CheckInstance
  <2>1. ChanCap \in Nat /\ <<>> \in Seq(Messages) /\ Len(<<>>) <= ChanCap
    BY FeedAssumption DEF FeedAssumption
  <2>2. HandlerTypes' /\ LinkTypes'
    BY <1>0, <1>14, <2>1 DEF CheckInstance, HandlerEnds, HandlerTypes, LinkTypes
  <2>3. ManagerTypes'
    BY <1>0, <1>14 DEF CheckInstance, ManagerTypes, managerVars, brokerVars, counts
  <2>4. PageTypes'
    BY <1>0, <1>14 DEF CheckInstance, PageTypes, refreshVars, jobVars
  <2> QED
    BY <2>2, <2>3, <2>4
<1>15. CASE Drop
  BY <1>0, <1>15, FeedAssumption, ReconcileType DEF Drop, HandlerEnds, FeedAssumption, ManagerTypes, HandlerTypes, LinkTypes, PageTypes, managerVars, brokerVars, refreshVars, counts
<1>16. CASE Restart
  <2>1. ManagerTypes'
    BY <1>0, <1>16, FeedAssumption DEF Restart, ManagerTypes, FeedAssumption, Kinds
  <2>2. ChanCap \in Nat /\ <<>> \in Seq(Messages) /\ Len(<<>>) <= ChanCap
    BY FeedAssumption DEF FeedAssumption
  <2>3. HandlerTypes' /\ LinkTypes'
    <3>1. CASE es = "open"
      BY <1>0, <1>16, <2>2, <3>1 DEF Restart, HandlerEnds, HandlerTypes, LinkTypes
    <3>2. CASE es # "open"
      BY <1>0, <1>16, <3>2 DEF Restart, HandlerTypes, LinkTypes, handlerVars
    <3> QED
      BY <3>1, <3>2
  <2>4. asked' \in BOOLEAN
    BY <1>0, <1>16, ReconcileType DEF Restart, PageTypes
  <2>5. PageTypes'
    BY <1>0, <1>16, <2>4 DEF Restart, PageTypes, refreshVars
  <2> QED
    BY <2>1, <2>3, <2>5
<1>17. CASE UNCHANGED vars
  BY <1>0, <1>17 DEF vars, ManagerTypes, HandlerTypes, LinkTypes, PageTypes, managerVars, brokerVars, handlerVars, linkVars, pageVars, refreshVars, jobVars, counts
<1> QED
  BY <1>1, <1>2, <1>3, <1>4, <1>5, <1>6, <1>7, <1>8, <1>9, <1>10, <1>11, <1>12, <1>13, <1>14, <1>15, <1>16, <1>17
     DEF Next, ManagerStep, HandlerStep, PageStep

\* Type correctness; in particular the replay buffer and the subscriber's channel keep
\* to their capacities (manager/events/events.go:92-111).
THEOREM FeedTypes == Spec => []TypeOK
<1>1. Init => TypeOK
  BY TypesInit, FeedAssumption
<1>2. TypeOK /\ [Next]_vars => TypeOK'
  BY TypesNext, FeedAssumption
<1> QED
  BY <1>1, <1>2, PTL DEF Spec

-----------------------------------------------------------------------------
(* A refresh that was asked for *)

\* The pass that is under way, or the one queued behind it, answers whoever asked last.
FreshInv ==
    /\ wanted <= truth
    /\ pass = "asked" => reply >= wanted \/ queued
    /\ pass = "read" => view >= wanted \/ failed \/ queued
    /\ RefreshIsFresh

LEMMA RefreshFresh ==
    ASSUME TypeOK, FreshInv, Refresh, UNCHANGED <<truth, view, reply>>
    PROVE  FreshInv'
<1>1. wanted' = truth /\ truth \in Nat /\ view \in Nat
  BY DEF Refresh, Asked, TypeOK
<1>2. CASE pass = "none"
  BY <1>1, <1>2 DEF Refresh, StartPass, FreshInv, RefreshIsFresh
<1>3. CASE pass # "none"
  BY <1>1, <1>3 DEF Refresh, FreshInv, RefreshIsFresh
<1> QED
  BY <1>2, <1>3

LEMMA FreshNext ==
    ASSUME TypeOK, FreshInv, [Next]_vars
    PROVE  FreshInv'
<1>1. CASE UNCHANGED refreshVars /\ (UNCHANGED truth \/ truth' = truth + 1)
  BY <1>1 DEF FreshInv, RefreshIsFresh, TypeOK, refreshVars
<1>2. CASE Start \/ SoonFires
  BY <1>2, RefreshFresh DEF Start, SoonFires, managerVars
<1>3. CASE Receive
  <2>1. UNCHANGED <<truth, view, reply>>
    BY <1>3 DEF Receive, managerVars
  <2>2. CASE OnResync
    BY <2>1, <2>2, RefreshFresh DEF OnResync
  <2>3. CASE OnJobEnd \/ OnChange
    BY <2>1, <2>3 DEF OnJobEnd, OnChange, FreshInv, RefreshIsFresh
  <2> QED
    BY <1>3, <2>2, <2>3 DEF Receive
<1>4. CASE Fetch \/ Load
  BY <1>4 DEF Fetch, Load, FreshInv, RefreshIsFresh, TypeOK, managerVars
<1>5. CASE LoadFails
  BY <1>5 DEF LoadFails, FreshInv, RefreshIsFresh, managerVars
<1>6. CASE PassEnds
  BY <1>6 DEF PassEnds, FreshInv, RefreshIsFresh, managerVars
<1>7. CASE ManagerStep \/ HandlerStep \/ Drop \/ Restart \/ UNCHANGED vars
  <2>1. CASE ManagerStep
    BY <1>1, <2>1 DEF ManagerStep, Change, JobEnds, Publish, pageVars
  <2>2. CASE HandlerStep
    BY <1>1, <2>2 DEF HandlerStep, Subscribe, Resume, Deliver, LagLook, LagCompare, LagMark, managerVars, pageVars
  <2>3. CASE Drop \/ Restart \/ UNCHANGED vars
    BY <1>1, <2>3 DEF Drop, Restart, vars, managerVars, pageVars
  <2> QED
    BY <1>7, <2>1, <2>2, <2>3
<1>8. CASE Post \/ Watch \/ HeldExpires \/ Reconciled \/ ReconcileFails \/ CheckInstance
  BY <1>1, <1>8 DEF Post, Watch, HeldExpires, Reconciled, ReconcileFails, CheckInstance, managerVars, pageVars
<1> QED
  BY <1>2, <1>3, <1>4, <1>5, <1>6, <1>7, <1>8 DEF Next, PageStep

\* Single-flight refreshes lose no request: when none is running, the page shows what
\* the endpoint held when anybody last asked, or says that it could not read it
\* (dashboard/js/core.js).
THEOREM FeedFresh == Spec => []RefreshIsFresh
<1>1. Init => FreshInv
  BY DEF Init, FreshInv, RefreshIsFresh
<1>2. TypeOK /\ FreshInv /\ [Next]_vars => FreshInv'
  BY FreshNext
<1>3. FreshInv => RefreshIsFresh
  BY DEF FreshInv
<1> QED
  BY <1>1, <1>2, <1>3, FeedTypes, PTL DEF Spec

-----------------------------------------------------------------------------
(* No message twice *)

Current == es # "closed" /\ instance = restarts

\* The replay buffer holds the last messages, without a gap.
RingInSequence ==
    Len(ring) <= seq /\ \A i \in 1 .. Len(ring) : ring[i].id = (seq - Len(ring)) + i

\* A handler lives as long as its connection, and has written nothing before it resumes.
HandlerHasConnection ==
    /\ handler # "none" <=> es = "open"
    /\ handler \in {"none", "subscribed"} => wire = <<>> /\ last = 0
    /\ handler = "none" => chan = <<>>

\* The page was started against a manager that has run by then, with no id.
StartedOnce == instance <= restarts /\ (es = "closed" /\ ~stale => lastId = 0)

\* Everything written so far is accounted for in last, and what is still in the channel
\* is either covered by it or new to the page.
Accounted ==
    /\ lastId <= seq /\ last <= seq
    /\ last # 0 => lastId <= last
    /\ \A i \in 1 .. Len(chan) : chan[i].id <= seq /\ (last = 0 => lastId < chan[i].id)
    /\ \A i \in 1 .. Len(wire) : wire[i].id <= last

Increasing ==
    \A k \in 1 .. Len(wire) : wire[k].id # 0 =>
        /\ lastId < wire[k].id
        /\ \A i \in 1 .. k - 1 : wire[i].id < wire[k].id

OrderInv ==
    /\ RingInSequence /\ HandlerHasConnection /\ StartedOnce
    /\ Current => Accounted /\ Increasing

LEMMA OrderInit == Init => OrderInv
  BY DEF Init, OrderInv, RingInSequence, HandlerHasConnection, StartedOnce, Current, Accounted, Increasing

LEMMA IdsAreNaturals ==
    ASSUME TypeOK
    PROVE  /\ seq \in Nat /\ last \in Nat /\ lastId \in Nat /\ instance \in Nat /\ restarts \in Nat
           /\ Len(ring) \in Nat /\ Len(chan) \in Nat /\ Len(wire) \in Nat
           /\ \A i \in 1 .. Len(ring) : ring[i] \in Messages /\ ring[i].id \in Nat \ {0}
           /\ \A i \in 1 .. Len(chan) : chan[i] \in Messages /\ chan[i].id \in Nat \ {0}
           /\ \A i \in 1 .. Len(wire) : wire[i] \in Frames /\ wire[i].id \in Nat
<1>1. \A m \in Messages : m.id \in Nat \ {0}
  BY DEF Messages
<1>2. \A f \in Frames : f.id \in Nat
  BY <1>1 DEF Frames, Resync
<1> QED
  BY <1>1, <1>2 DEF TypeOK

\* Writing frames whose numbers are new, in order, and covered by the last one accounted
\* for from then on.
LEMMA WriteInOrder ==
    ASSUME TypeOK, Accounted, Increasing, NEW frames \in Seq(Frames), Write(frames),
           last' \in Nat, last <= last',
           \A k \in 1 .. Len(frames) :
               /\ frames[k].id \in Nat /\ frames[k].id <= last'
               /\ frames[k].id # 0 =>
                   /\ lastId < frames[k].id /\ \A i \in 1 .. Len(wire) : wire[i].id < frames[k].id
                   /\ \A i \in 1 .. k - 1 : frames[i].id < frames[k].id,
           UNCHANGED lastId
    PROVE  Increasing' /\ \A i \in 1 .. Len(wire') : wire'[i].id <= last'
<1>1. wire \in Seq(Frames) /\ wire' = wire \o frames
  BY DEF TypeOK, Write
<1>2. /\ Len(wire') = Len(wire) + Len(frames) /\ Len(wire) \in Nat /\ Len(frames) \in Nat
      /\ \A i \in 1 .. Len(wire) : wire'[i] = wire[i]
      /\ \A i \in Len(wire) + 1 .. Len(wire) + Len(frames) : wire'[i] = frames[i - Len(wire)]
  BY <1>1, ConcatFacts
<1>3. ASSUME NEW k \in 1 .. Len(wire')
      PROVE  /\ wire'[k].id <= last'
             /\ wire'[k].id # 0 =>
                /\ lastId < wire'[k].id /\ \A i \in 1 .. k - 1 : wire'[i].id < wire'[k].id
  <2>1. CASE k \in 1 .. Len(wire)
    <3>1. wire'[k].id <= last'
      BY <1>2, <2>1, IdsAreNaturals DEF Accounted
    <3>2. \A i \in 1 .. k - 1 : i \in 1 .. Len(wire)
      BY <1>2, <2>1
    <3> QED
      BY <1>2, <2>1, <3>1, <3>2 DEF Increasing
  <2>2. CASE k \in Len(wire) + 1 .. Len(wire) + Len(frames)
    <3> DEFINE j == k - Len(wire)
    <3>1. j \in 1 .. Len(frames) /\ wire'[k] = frames[j]
      BY <1>2, <2>2
    <3>2. ASSUME NEW i \in 1 .. k - 1, frames[j].id # 0 PROVE wire'[i].id < frames[j].id
      <4>1. CASE i \in 1 .. Len(wire)
        BY <1>2, <3>1, <3>2, <4>1
      <4>2. CASE i \in Len(wire) + 1 .. Len(wire) + Len(frames)
        <5>1. i - Len(wire) \in 1 .. j - 1 /\ wire'[i] = frames[i - Len(wire)]
          BY <1>2, <3>2, <4>2
        <5> QED
          BY <3>1, <3>2, <5>1
      <4> QED
        BY <1>2, <2>2, <3>2, <4>1, <4>2
    <3> HIDE DEF j
    <3> QED
      BY <3>1, <3>2
  <2> QED
    BY <1>2, <2>1, <2>2
<1> QED
  BY <1>3 DEF Increasing

LEMMA WriteResync ==
    ASSUME TypeOK, Accounted, Increasing, Write(<<Resync>>), UNCHANGED <<last, lastId>>
    PROVE  Increasing' /\ \A i \in 1 .. Len(wire') : wire'[i].id <= last'
<1> DEFINE frames == <<Resync>>
<1>1. frames \in Seq(Frames) /\ Len(frames) = 1 /\ \A k \in 1 .. Len(frames) : frames[k].id = 0
  BY FrameTypes DEF Resync
<1>2. Write(frames)
  OBVIOUS
<1> HIDE DEF frames
<1>3. last' \in Nat /\ last <= last'
  BY IdsAreNaturals
<1> QED
  BY <1>1, <1>2, <1>3, WriteInOrder

LEMMA OrderNext ==
    ASSUME TypeOK, OrderInv, TypeOK', [Next]_vars
    PROVE  OrderInv'
<1> USE DEF OrderInv
<1>0. ManagerTypes
  BY TypesAreTypeOK
<1>1. ASSUME NEW kind \in Kinds, Publish(kind) PROVE OrderInv'
  <2> DEFINE m == [id |-> seq + 1, kind |-> kind]
  <2>1. m \in Messages /\ m.id = seq + 1
    BY <1>0 DEF ManagerTypes, Messages
  <2>2. /\ ring' = Trimmed(Append(ring, m)) /\ seq' = seq + 1
        /\ UNCHANGED <<handler, last, wire, es, lastId, instance, stale, restarts>>
    BY <1>1 DEF Publish, linkVars, pageVars, counts
  <2> HIDE DEF m
  <2>3. RingInSequence'
    <3>1. /\ Len(ring') \in Nat \ {0} /\ Len(ring') <= Len(ring) + 1
          /\ \A i \in 1 .. Len(ring') - 1 : ring'[i] = ring[i + (Len(ring) + 1 - Len(ring'))]
          /\ ring'[Len(ring')] = m
      BY <1>0, <2>1, <2>2, TrimmedFacts, FeedAssumption
    <3>2. Len(ring) \in Nat /\ seq \in Nat /\ Len(ring) <= seq
      BY IdsAreNaturals DEF RingInSequence
    <3>3. ASSUME NEW i \in 1 .. Len(ring') PROVE ring'[i].id = (seq' - Len(ring')) + i
      <4>1. CASE i = Len(ring')
        BY <2>1, <2>2, <3>1, <3>2, <4>1
      <4>2. CASE i \in 1 .. Len(ring') - 1
        <5>1. i + (Len(ring) + 1 - Len(ring')) \in 1 .. Len(ring)
          BY <3>1, <3>2, <4>2
        <5>2. ring'[i].id = (seq - Len(ring)) + (i + (Len(ring) + 1 - Len(ring')))
          BY <3>1, <4>2, <5>1 DEF RingInSequence
        <5> QED
          BY <2>2, <3>1, <3>2, <4>2, <5>2
      <4> QED
        BY <3>1, <4>1, <4>2
    <3> QED
      BY <2>2, <3>1, <3>2, <3>3 DEF RingInSequence
  <2>4. handler = "none" => UNCHANGED chan
    BY <1>1 DEF Publish
  <2>5. UNCHANGED chan \/ chan' = Append(chan, m)
    BY <1>1 DEF Publish, m
  <2>6. ASSUME Accounted PROVE Accounted'
    <3>1. /\ seq \in Nat /\ lastId <= seq /\ last <= seq /\ lastId \in Nat /\ last \in Nat
          /\ Len(chan) \in Nat /\ chan \in Seq(Messages)
          /\ \A i \in 1 .. Len(chan) : chan[i].id \in Nat /\ chan[i].id <= seq
      BY <2>6, IdsAreNaturals DEF Accounted, TypeOK
    <3>2. ASSUME NEW i \in 1 .. Len(chan') PROVE chan'[i] = m \/ (i \in 1 .. Len(chan) /\ chan'[i] = chan[i])
      <4>1. CASE UNCHANGED chan
        BY <4>1
      <4>2. CASE chan' = Append(chan, m)
        <5>1. /\ Len(chan') = Len(chan) + 1 /\ chan'[Len(chan) + 1] = m
              /\ \A k \in 1 .. Len(chan) : chan'[k] = chan[k]
          BY <2>1, <3>1, <4>2, AppendProperties
        <5> QED
          BY <3>1, <5>1
      <4> QED
        BY <2>5, <4>1, <4>2
    <3>3. ASSUME NEW i \in 1 .. Len(chan') PROVE chan'[i].id <= seq' /\ (last' = 0 => lastId' < chan'[i].id)
      BY <2>1, <2>2, <2>6, <3>1, <3>2 DEF Accounted
    <3> QED
      BY <2>2, <2>6, <3>1, <3>3 DEF Accounted
  <2> QED
    BY <2>2, <2>3, <2>4, <2>6 DEF HandlerHasConnection, StartedOnce, Current, Increasing
<1>2. CASE Subscribe
  <2>1. /\ es = "waiting" /\ es' = "open" /\ handler' = "subscribed" /\ chan' = <<>> /\ last' = 0
        /\ UNCHANGED <<wire, lastId, seq, ring, instance, stale, restarts>>
    BY <1>2 DEF Subscribe, brokerVars, pageVars, counts
  <2>2. wire = <<>> /\ wire' = <<>>
    BY <2>1 DEF HandlerHasConnection, TypeOK
  <2>3. RingInSequence' /\ HandlerHasConnection' /\ StartedOnce'
    BY <2>1, <2>2 DEF RingInSequence, HandlerHasConnection, StartedOnce
  <2>4. Current' => Accounted' /\ Increasing'
    BY <2>1, <2>2, IdsAreNaturals DEF Current, Accounted, Increasing
  <2> QED
    BY <2>3, <2>4
<1>3. CASE Resume
  <2>1. /\ handler = "subscribed" /\ handler' = "loop"
        /\ UNCHANGED <<chan, es, lastId, seq, ring, instance, stale, restarts>>
    BY <1>3 DEF Resume, brokerVars, pageVars, counts
  <2>2. wire = <<>> /\ last = 0 /\ es = "open"
    BY <2>1 DEF HandlerHasConnection
  <2>3. RingInSequence' /\ HandlerHasConnection' /\ StartedOnce'
    BY <2>1, <2>2 DEF RingInSequence, HandlerHasConnection, StartedOnce
  <2>4. ASSUME Current PROVE Accounted' /\ Increasing'
    <3>1. Accounted /\ Increasing
      BY <2>4
    <3>2. CASE UNCHANGED <<wire, last>>
      BY <2>1, <3>1, <3>2 DEF Accounted, Increasing
    <3>3. ASSUME NEW k \in 0 .. Len(ring), Older(lastId, k), Write(SubSeq(ring, k + 1, Len(ring))),
                 LET newer == SubSeq(ring, k + 1, Len(ring))
                 IN  last' = IF newer = <<>> THEN 0 ELSE newer[Len(newer)].id
          PROVE  Accounted' /\ Increasing'
      <4> DEFINE newer == SubSeq(ring, k + 1, Len(ring))
      <4>1. /\ newer \in Seq(Messages) /\ Len(newer) = Len(ring) - k /\ Len(newer) \in Nat
            /\ \A i \in 1 .. Len(newer) : newer[i] = ring[k + i]
        BY <1>0, NewerFacts
      <4>2. Write(newer) /\ last' = IF newer = <<>> THEN 0 ELSE newer[Len(newer)].id
        BY <3>3
      <4> HIDE DEF newer
      <4>3. /\ Len(ring) \in Nat /\ seq \in Nat /\ lastId \in Nat /\ Len(ring) <= seq
            /\ \A i \in 1 .. Len(ring) : ring[i].id = (seq - Len(ring)) + i
        BY IdsAreNaturals DEF RingInSequence
      <4>4. \A i \in 1 .. Len(newer) : newer[i].id = (seq - Len(newer)) + i /\ newer[i].id > lastId
        <5> TAKE i \in 1 .. Len(newer)
        <5>1. k + i \in 1 .. Len(ring) /\ k + i > k
          BY <4>1, <4>3
        <5>2. ring[k + i].id > lastId
          BY <3>3, <5>1 DEF Older
        <5>3. ring[k + i].id = (seq - Len(ring)) + (k + i)
          BY <4>3, <5>1
        <5> QED
          BY <4>1, <4>3, <5>2, <5>3
      <4>5. newer = <<>> => last' = 0
        BY <4>2
      <4>6. newer # <<>> => last' = seq /\ lastId < seq
        <5> SUFFICES ASSUME newer # <<>> PROVE last' = seq /\ lastId < seq
          OBVIOUS
        <5>1. Len(newer) \in 1 .. Len(newer)
          BY <4>1
        <5>2. newer[Len(newer)].id = seq /\ newer[Len(newer)].id > lastId
          BY <4>1, <4>3, <4>4, <5>1
        <5> QED
          BY <4>2, <5>2
      <4>7. newer \in Seq(Frames) /\ last' \in Nat
        BY <4>1, <4>3, <4>5, <4>6, FrameTypes
      <4>8. \A i \in 1 .. Len(newer) : newer[i].id \in Nat /\ newer[i].id <= last'
        <5> TAKE i \in 1 .. Len(newer)
        <5>1. newer # <<>>
          BY <4>1
        <5> QED
          BY <4>1, <4>3, <4>4, <4>6, <5>1
      <4>9. \A i \in 1 .. Len(newer) : \A j \in 1 .. i - 1 : newer[j].id < newer[i].id
        <5> TAKE i \in 1 .. Len(newer)
        <5> TAKE j \in 1 .. i - 1
        <5>1. j \in 1 .. Len(newer) /\ j < i
          BY <4>1
        <5>2. newer[i].id = (seq - Len(newer)) + i /\ newer[j].id = (seq - Len(newer)) + j
          BY <4>4, <5>1
        <5>3. i \in Int /\ j \in Int /\ seq - Len(newer) \in Int
          BY <4>1, <4>3
        <5> QED
          BY <5>1, <5>2, <5>3
      <4>10. Len(wire) = 0
        BY <2>2
      <4>11. Increasing' /\ \A i \in 1 .. Len(wire') : wire'[i].id <= last'
        <5>1. last <= last'
          BY <2>2, <4>7
        <5> QED
          BY <2>1, <3>1, <4>2, <4>4, <4>7, <4>8, <4>9, <4>10, <5>1, WriteInOrder
      <4>12. lastId' <= seq' /\ last' <= seq' /\ (last' # 0 => lastId' <= last')
        BY <2>1, <3>1, <4>3, <4>5, <4>6 DEF Accounted
      <4>13. \A i \in 1 .. Len(chan') : chan'[i].id <= seq' /\ (last' = 0 => lastId' < chan'[i].id)
        BY <2>1, <2>2, <3>1 DEF Accounted
      <4> QED
        BY <4>11, <4>12, <4>13 DEF Accounted
    <3>4. CASE Write(<<Resync>>) /\ UNCHANGED last
      <4>1. Increasing' /\ \A i \in 1 .. Len(wire') : wire'[i].id <= last'
        BY <2>1, <3>1, <3>4, WriteResync
      <4> QED
        BY <2>1, <3>1, <3>4, <4>1 DEF Accounted
    <3> QED
      BY <1>3, <3>2, <3>3, <3>4 DEF Resume
  <2> QED
    BY <2>1, <2>3, <2>4 DEF Current
<1>4. CASE Deliver
  <2> DEFINE m == Head(chan)
  <2>1. /\ handler = "loop" /\ chan # <<>> /\ chan' = Tail(chan)
        /\ UNCHANGED <<handler, es, lastId, seq, ring, instance, stale, restarts>>
    BY <1>4 DEF Deliver, brokerVars, pageVars, counts
  <2>2. \/ m.id <= last /\ UNCHANGED <<wire, last>>
        \/ ~(m.id <= last) /\ last' = m.id /\ (Write(<<Resync, m>>) \/ Write(<<m>>))
    BY <1>4 DEF Deliver
  <2>0. chan \in Seq(Messages) /\ Len(chan) \in Nat \ {0} /\ m = chan[1] /\ 1 \in 1 .. Len(chan)
    <3>1. chan \in Seq(Messages)
      BY DEF TypeOK
    <3>2. Len(chan) \in Nat \ {0}
      BY <2>1, <3>1, EmptySeq
    <3>3. Head(chan) = chan[1]
      BY <2>1, <3>1
    <3> QED
      BY <3>1, <3>2, <3>3
  <2>3. /\ chan \in Seq(Messages) /\ m \in Messages /\ m.id \in Nat \ {0} /\ m = chan[1]
        /\ Len(chan) \in Nat \ {0} /\ Len(chan') = Len(chan) - 1
        /\ \A i \in 1 .. Len(chan') : chan'[i] = chan[i + 1]
    BY <2>0, <2>1, HeadTailProperties, IdsAreNaturals
  <2> HIDE DEF m
  <2>4. RingInSequence' /\ HandlerHasConnection' /\ StartedOnce'
    BY <2>1 DEF RingInSequence, HandlerHasConnection, StartedOnce
  <2>5. ASSUME Current PROVE Accounted' /\ Increasing'
    <3>1. Accounted /\ Increasing
      BY <2>5
    <3>2. /\ last \in Nat /\ lastId \in Nat /\ seq \in Nat /\ lastId <= seq /\ last <= seq
          /\ m.id <= seq /\ (last = 0 => lastId < m.id) /\ (last # 0 => lastId <= last)
      BY <2>3, <3>1, IdsAreNaturals DEF Accounted
    <3>3. \A i \in 1 .. Len(chan') : chan'[i].id <= seq /\ (last = 0 => lastId < chan'[i].id)
      <4> TAKE i \in 1 .. Len(chan')
      <4>1. i + 1 \in 1 .. Len(chan) /\ chan'[i] = chan[i + 1]
        BY <2>3
      <4> QED
        BY <3>1, <4>1 DEF Accounted
    <3>4. CASE m.id <= last /\ UNCHANGED <<wire, last>>
      BY <2>1, <3>1, <3>2, <3>3, <3>4 DEF Accounted, Increasing
    <3>5. CASE ~(m.id <= last) /\ last' = m.id /\ (Write(<<Resync, m>>) \/ Write(<<m>>))
      <4>1. last < m.id /\ last' \in Nat /\ lastId < m.id /\ last' # 0
        BY <2>3, <3>2, <3>5
      <4>2. \A i \in 1 .. Len(wire) : wire[i].id < m.id
        BY <3>1, <3>2, <2>3, <4>1, IdsAreNaturals DEF Accounted
      <4>3. Increasing' /\ \A i \in 1 .. Len(wire') : wire'[i].id <= last'
        <5>1. CASE Write(<<m>>)
          <6> DEFINE frames == <<m>>
          <6>1. /\ frames \in Seq(Frames) /\ Len(frames) = 1
                /\ \A k \in 1 .. Len(frames) : k = 1 /\ frames[k] = m
            BY <2>3, FrameTypes
          <6>2. Write(frames)
            BY <5>1
          <6> HIDE DEF frames
          <6>3. last' \in Nat /\ last <= last' /\ UNCHANGED lastId
            BY <2>1, <3>2, <4>1, <3>5
          <6>4. \A k \in 1 .. Len(frames) :
                   /\ frames[k].id \in Nat /\ frames[k].id <= last'
                   /\ lastId < frames[k].id /\ \A i \in 1 .. Len(wire) : wire[i].id < frames[k].id
                   /\ \A i \in 1 .. k - 1 : frames[i].id < frames[k].id
            BY <2>3, <3>5, <4>1, <4>2, <6>1
          <6> QED
            BY <3>1, <6>1, <6>2, <6>3, <6>4, WriteInOrder
        <5>2. CASE Write(<<Resync, m>>)
          <6> DEFINE frames == <<Resync, m>>
          <6>1. /\ frames \in Seq(Frames) /\ Len(frames) = 2 /\ frames[2] = m
                /\ frames[1] = Resync /\ Resync.id = 0
            BY <2>3, FrameTypes DEF Resync
          <6> HIDE DEF frames
          <6>2. \A k \in 1 .. Len(frames) : k = 1 \/ k = 2
            BY <6>1
          <6>3. ASSUME NEW k \in 1 .. Len(frames)
                PROVE  /\ frames[k].id \in Nat /\ frames[k].id <= last'
                       /\ frames[k].id # 0 =>
                           /\ lastId < frames[k].id /\ \A i \in 1 .. Len(wire) : wire[i].id < frames[k].id
                           /\ \A i \in 1 .. k - 1 : frames[i].id < frames[k].id
            <7>1. CASE k = 1
              BY <4>1, <6>1, <7>1
            <7>2. CASE k = 2
              <8>1. \A i \in 1 .. k - 1 : i = 1
                BY <7>2
              <8> QED
                BY <2>3, <3>2, <3>5, <4>1, <4>2, <6>1, <7>2, <8>1
            <7> QED
              BY <6>2, <7>1, <7>2
          <6>4. Write(frames) /\ last <= last' /\ UNCHANGED lastId
            BY <2>1, <3>2, <3>5, <4>1, <5>2 DEF frames
          <6> QED
            BY <3>1, <4>1, <6>1, <6>3, <6>4, WriteInOrder
        <5> QED
          BY <3>5, <5>1, <5>2
      <4> QED
        BY <2>1, <2>3, <3>2, <3>3, <3>5, <4>1, <4>3 DEF Accounted
    <3> QED
      BY <2>2, <3>4, <3>5
  <2> QED
    BY <2>1, <2>4, <2>5 DEF Current
<1>5. CASE LagLook
  BY <1>5 DEF LagLook, brokerVars, linkVars, pageVars, counts, RingInSequence, HandlerHasConnection, StartedOnce, Current, Accounted, Increasing
<1>6. CASE LagCompare
  <2>1. /\ handler = "looked" /\ handler' \in {"lagged", "loop"} /\ (Write(<<Resync>>) \/ UNCHANGED wire)
        /\ UNCHANGED <<chan, last, es, lastId, seq, ring, instance, stale, restarts>>
    BY <1>6 DEF LagCompare, brokerVars, pageVars, counts
  <2>2. RingInSequence' /\ HandlerHasConnection' /\ StartedOnce'
    BY <2>1 DEF RingInSequence, HandlerHasConnection, StartedOnce
  <2>3. ASSUME Current PROVE Accounted' /\ Increasing'
    <3>1. Accounted /\ Increasing
      BY <2>3
    <3>2. CASE UNCHANGED wire
      BY <2>1, <3>1, <3>2 DEF Accounted, Increasing
    <3>3. CASE Write(<<Resync>>)
      <4>1. Increasing' /\ \A i \in 1 .. Len(wire') : wire'[i].id <= last'
        BY <2>1, <3>1, <3>3, WriteResync
      <4> QED
        BY <2>1, <3>1, <4>1 DEF Accounted
    <3> QED
      BY <2>1, <3>2, <3>3
  <2> QED
    BY <2>1, <2>2, <2>3 DEF Current
<1>7. CASE LagMark
  <2>1. /\ handler = "lagged" /\ handler' = "loop" /\ last' = seq
        /\ UNCHANGED <<chan, wire, es, lastId, seq, ring, instance, stale, restarts>>
    BY <1>7 DEF LagMark, brokerVars, linkVars, pageVars, counts
  <2>2. RingInSequence' /\ HandlerHasConnection' /\ StartedOnce'
    BY <2>1 DEF RingInSequence, HandlerHasConnection, StartedOnce
  <2>3. ASSUME Current PROVE Accounted' /\ Increasing'
    <3>1. Accounted /\ Increasing
      BY <2>3
    <3>2. seq \in Nat /\ last \in Nat /\ last <= seq /\ lastId <= seq
          /\ \A i \in 1 .. Len(wire) : wire[i].id \in Nat
      BY <3>1, IdsAreNaturals DEF Accounted
    <3> QED
      BY <2>1, <3>1, <3>2 DEF Accounted, Increasing
  <2> QED
    BY <2>1, <2>2, <2>3 DEF Current
<1>8. CASE Start
  <2>1. /\ es = "closed" /\ ~stale /\ es' = "waiting" /\ instance' = restarts
        /\ UNCHANGED <<stale, wire, lastId, seq, ring, chan, handler, last, restarts>>
    BY <1>8 DEF Start, brokerVars, handlerVars, counts
  <2>2. lastId = 0 /\ handler = "none" /\ wire = <<>> /\ chan = <<>> /\ last = 0
    BY <2>1 DEF StartedOnce, HandlerHasConnection, TypeOK
  <2>3. RingInSequence' /\ HandlerHasConnection' /\ StartedOnce'
    BY <2>1, <2>2, IdsAreNaturals DEF RingInSequence, HandlerHasConnection, StartedOnce
  <2>4. Accounted' /\ Increasing'
    BY <2>1, <2>2, IdsAreNaturals DEF Accounted, Increasing
  <2> QED
    BY <2>3, <2>4
<1>9. CASE Receive
  <2> DEFINE f == Head(wire)
  <2>1. /\ es = "open" /\ wire # <<>> /\ wire' = Tail(wire)
        /\ lastId' = IF f.id = 0 THEN lastId ELSE f.id
        /\ UNCHANGED <<instance, stale, es, seq, ring, chan, handler, last, restarts>>
    BY <1>9 DEF Receive, brokerVars, handlerVars, counts
  <2>2. /\ wire \in Seq(Frames) /\ f = wire[1] /\ f \in Frames /\ f.id \in Nat
        /\ Len(wire) \in Nat \ {0} /\ Len(wire') = Len(wire) - 1
        /\ \A i \in 1 .. Len(wire') : wire'[i] = wire[i + 1]
    BY <2>1, HeadTailProperties, IdsAreNaturals DEF TypeOK
  <2> HIDE DEF f
  <2>3. RingInSequence' /\ HandlerHasConnection' /\ StartedOnce'
    BY <2>1 DEF RingInSequence, HandlerHasConnection, StartedOnce, TypeOK
  <2>4. ASSUME Current PROVE Accounted' /\ Increasing'
    <3>1. Accounted /\ Increasing
      BY <2>4
    <3>2. /\ last \in Nat /\ lastId \in Nat /\ seq \in Nat /\ lastId' \in Nat /\ last <= seq
          /\ f.id <= last
      BY <2>1, <2>2, <3>1, IdsAreNaturals DEF Accounted
    <3>3. Accounted'
      <4>1. lastId' <= seq /\ (last # 0 => lastId' <= last)
        BY <2>1, <2>2, <3>1, <3>2 DEF Accounted
      <4>2. last = 0 => lastId' = lastId
        BY <2>1, <2>2, <3>2
      <4>3. \A i \in 1 .. Len(wire') : wire'[i].id <= last
        BY <2>2, <3>1 DEF Accounted
      <4> QED
        BY <2>1, <3>1, <3>2, <4>1, <4>2, <4>3 DEF Accounted
    <3>4. Increasing'
      <4>1. SUFFICES ASSUME NEW k \in 1 .. Len(wire'), wire'[k].id # 0
                     PROVE  lastId' < wire'[k].id /\ \A i \in 1 .. k - 1 : wire'[i].id < wire'[k].id
        BY DEF Increasing
      <4>2. k + 1 \in 1 .. Len(wire) /\ wire'[k] = wire[k + 1] /\ 1 \in 1 .. (k + 1) - 1
        BY <2>2
      <4>3. lastId < wire[k + 1].id /\ \A i \in 1 .. (k + 1) - 1 : wire[i].id < wire[k + 1].id
        BY <3>1, <4>1, <4>2 DEF Increasing
      <4>4. ASSUME NEW i \in 1 .. k - 1 PROVE wire'[i].id < wire'[k].id
        <5>1. i + 1 \in 1 .. (k + 1) - 1 /\ wire'[i] = wire[i + 1]
          BY <2>2, <4>2
        <5> QED
          BY <4>2, <4>3, <5>1
      <4> QED
        BY <2>1, <2>2, <4>2, <4>3, <4>4
    <3> QED
      BY <3>3, <3>4
  <2> QED
    BY <2>1, <2>3, <2>4 DEF Current
<1>10. CASE CheckInstance \/ Drop
  <2>1. /\ handler' = "none" /\ chan' = <<>> /\ last' = 0 /\ wire' = <<>>
        /\ UNCHANGED <<seq, ring, instance, lastId, restarts>>
    BY <1>10 DEF CheckInstance, Drop, HandlerEnds, brokerVars, counts
  <2>2. \/ es' = "closed" /\ stale' = TRUE
        \/ es' = "waiting" /\ es = "open" /\ UNCHANGED stale
    BY <1>10 DEF CheckInstance, Drop
  <2>3. RingInSequence' /\ HandlerHasConnection' /\ StartedOnce'
    BY <2>1, <2>2 DEF RingInSequence, HandlerHasConnection, StartedOnce
  <2>4. Current' => Accounted' /\ Increasing'
    BY <2>1, <2>2, IdsAreNaturals DEF Current, Accounted, Increasing
  <2> QED
    BY <2>3, <2>4
<1>11. CASE Restart
  <2>1. /\ seq' = 0 /\ ring' = <<>> /\ restarts' = restarts + 1
        /\ UNCHANGED <<instance, stale, lastId>>
    BY <1>11 DEF Restart
  <2>2. \/ es = "open" /\ es' = "waiting" /\ handler' = "none" /\ chan' = <<>> /\ last' = 0 /\ wire' = <<>>
        \/ es # "open" /\ UNCHANGED <<es, wire, handler, chan, last>>
    BY <1>11 DEF Restart, HandlerEnds, handlerVars
  <2>3. RingInSequence' /\ HandlerHasConnection'
    BY <2>1, <2>2 DEF RingInSequence, HandlerHasConnection
  <2>4. StartedOnce' /\ ~Current'
    BY <2>1, <2>2, IdsAreNaturals DEF StartedOnce, Current
  <2> QED
    BY <2>3, <2>4
<1>12. CASE UNCHANGED <<seq, ring, chan, handler, last, wire, es, lastId, instance, stale, restarts>>
  BY <1>12 DEF RingInSequence, HandlerHasConnection, StartedOnce, Current, Accounted, Increasing
<1>13. CASE Change \/ JobEnds \/ SoonFires \/ Fetch \/ Load \/ LoadFails \/ PassEnds
  BY <1>12, <1>13 DEF Change, JobEnds, SoonFires, Fetch, Load, LoadFails, PassEnds, brokerVars, handlerVars, linkVars, pageVars, counts
<1>14. CASE Post \/ Watch \/ HeldExpires \/ Reconciled \/ ReconcileFails \/ UNCHANGED vars
  BY <1>12, <1>14 DEF Post, Watch, HeldExpires, Reconciled, ReconcileFails, vars, brokerVars, handlerVars, linkVars, pageVars, counts
<1> QED
  BY <1>1, <1>2, <1>3, <1>4, <1>5, <1>6, <1>7, <1>8, <1>9, <1>10, <1>11, <1>13, <1>14
     DEF Next, ManagerStep, HandlerStep, PageStep

\* However the replay of a reconnection and the live channel overlap, a page is handed
\* no message twice and none out of order (manager/api/sse.go:38-109,
\* manager/events/events.go:70-111).
THEOREM FeedOrder == Spec => []NothingTwice
<1>1. TypeOK /\ TypeOK' /\ OrderInv /\ [Next]_vars => OrderInv'
  BY OrderNext
<1>2. OrderInv => NothingTwice
  BY DEF OrderInv, Current, Increasing, NothingTwice
<1> QED
  BY <1>1, <1>2, OrderInit, FeedTypes, PTL DEF Spec
================================================================================
