-------------------------- MODULE ManagerPartsProofs --------------------------
(***************************************************************************)
(* Proofs about the components that ManagerParts puts together, for any    *)
(* values of its constants, where ManagerPartsMC checks small ones.  What  *)
(* is proved of the enrollments and of the scheduler has modules of its    *)
(* own.                                                                    *)
(***************************************************************************)
EXTENDS SchedulerProofs, SequenceTheorems, TLAPS

EnrP == INSTANCE EnrollmentProofs WITH
    MaxFailures <- MaxReboots, listed <- enrListed, gone <- enrGone,
    recorded <- enrRecorded, owner <- enrOwner, revoked <- enrRevoked, worker <- enrWorker,
    stage <- enrStage, installed <- enrInstalled, proc <- enrProc, conn <- enrConn,
    inbox <- enrInbox, asked <- enrAsked, excused <- enrExcused, begun <- enrBegun,
    failures <- enrFailures

\* A step of the composition is one of the component that runs.
LEMMA PartStep ==
    ASSUME [Next]_vars
    PROVE  /\ part' = part
           /\ part = "scheduler" => Sch!Next \/ UNCHANGED schVars
           /\ part = "enrollment" => Enr!Next \/ UNCHANGED enrVars
           /\ part = "dialer" => Dia!Next \/ UNCHANGED diaVars
           /\ part = "logs" => Log!Next \/ UNCHANGED logVars
           /\ part = "files" => Sta!Next \/ UNCHANGED staVars
           /\ part = "images" => Img!Next \/ UNCHANGED imgVars
           /\ part = "accounts" => Acc!Next \/ UNCHANGED accVars
           /\ part = "audit" => Aud!Next \/ UNCHANGED audVars
           /\ part = "certs" => Cer!Next \/ UNCHANGED cerVars
  BY DEF Next, vars, SchedulerStep, EnrollmentStep, DialerStep, LogStreamsStep,
         StackFilesStep, ImageUpdatesStep, AccountsStep, AuditLogStep, CertFilesStep

-----------------------------------------------------------------------------
(* The dialer. *)

\* Only one Sync has d.mu.
DialerOneHolder ==
    \A s, t \in Syncers : diaSync[s].pc = "holds" /\ diaSync[t].pc = "holds" => s = t

\* A loop that is not cancelled is the one the host has.
DialerOneLoop == \A h \in DialedHosts : \A l \in 1..Len(diaLoops[h]) : diaLoops[h][l].live => diaActive[h] = l

\* Until the manager stops, the loop a host has goes on.
DialerActiveGoes ==
    diaParent # "cancelled" => \A h \in DialedHosts : diaActive[h] # 0 =>
        diaLoops[h][diaActive[h]].live /\ diaLoops[h][diaActive[h]].pc # "done"

\* The loops are the ones the registry asks for.
DialerMatches ==
    \A h \in DialedHosts :
        IF diaAddress[h] = None THEN diaActive[h] = 0
        ELSE diaActive[h] # 0 /\ diaLoops[h][diaActive[h]].addr = diaAddress[h]

\* If a Sync works on an older copy, another has still to read the registry.
DialerSomeoneWill ==
    diaParent = "running" =>
        \/ \E s \in Syncers : diaSync[s].pc = "owed"
        \/ \E s \in Syncers : diaSync[s].pc = "holds" /\ diaSync[s].want = diaAddress
        \/ DialerMatches /\ ~Dia!Locked

DialerInv == Dia!TypeOK /\ DialerOneHolder /\ DialerOneLoop /\ DialerActiveGoes /\ DialerSomeoneWill

LEMMA DialerTypeInit == Dia!Init => Dia!TypeOK
  BY DEF Dia!Init, Dia!TypeOK, Dia!NoSync, Dia!Owed, Dia!Loops

LEMMA DialerSyncPc ==
    ASSUME Dia!TypeOK, NEW s \in Syncers
    PROVE  /\ diaSync[s].pc = "holds" => diaSync[s].want \in [DialedHosts -> Addrs \cup {None}]
           /\ diaSync[s] # Dia!NoSync => diaSync[s].pc \in {"owed", "holds"}
           /\ diaSync[s] = Dia!NoSync => diaSync[s].pc = "none"
           /\ diaSync[s] = Dia!Owed <=> diaSync[s].pc = "owed"
  BY DEF Dia!TypeOK, Dia!NoSync, Dia!Owed

\* What a step of a loop does to the loops.
LEMMA DialerLoopStep ==
    ASSUME Dia!TypeOK, NEW h \in DialedHosts, NEW l \in 1..Len(diaLoops[h]), NEW from,
           NEW to \in {"check", "dial", "serve", "wait", "done"}, Dia!LoopGoes(h, l, from, to)
    PROVE  /\ diaLoops' \in [DialedHosts -> Seq(Dia!Loops)]
           /\ \A g \in DialedHosts : Len(diaLoops'[g]) = Len(diaLoops[g])
           /\ \A g \in DialedHosts : \A k \in 1..Len(diaLoops[g]) :
                /\ diaLoops'[g][k].live = diaLoops[g][k].live
                /\ diaLoops'[g][k].addr = diaLoops[g][k].addr
                /\ diaLoops'[g][k].pc = IF g = h /\ k = l THEN to ELSE diaLoops[g][k].pc
<1> DEFINE rec == [diaLoops[h][l] EXCEPT !.pc = to]
<1>1. diaLoops[h] \in Seq(Dia!Loops) /\ diaLoops[h][l] \in Dia!Loops /\ diaLoops \in [DialedHosts -> Seq(Dia!Loops)]
  BY DEF Dia!TypeOK
<1>2. rec \in Dia!Loops /\ rec.live = diaLoops[h][l].live /\ rec.addr = diaLoops[h][l].addr /\ rec.pc = to
  BY <1>1 DEF Dia!Loops
<1>3. diaLoops' = [diaLoops EXCEPT ![h] = [@ EXCEPT ![l] = rec]]
  BY DEF Dia!LoopGoes
<1>4. [diaLoops[h] EXCEPT ![l] = rec] \in Seq(Dia!Loops)
      /\ Len([diaLoops[h] EXCEPT ![l] = rec]) = Len(diaLoops[h])
  BY <1>1, <1>2
<1> HIDE DEF rec
<1> QED
  BY <1>1, <1>2, <1>3, <1>4

\* The two ways in which a loop moves: as its context says, or from an attempt on.
LEMMA DialerLoopActs ==
    ASSUME NEW h \in DialedHosts, NEW l \in 1..Len(diaLoops[h]),
           \/ Dia!LoopCheck(h, l) \/ Dia!LoopServe(h, l) \/ Dia!LoopFail(h, l) \/ Dia!LoopLose(h, l)
           \/ Dia!LoopWake(h, l)
    PROVE  \E from, to \in {"check", "dial", "serve", "wait", "done"} :
              Dia!LoopGoes(h, l, from, to) /\ (to = "done" => ~Dia!Live(diaLoops[h][l]))
  BY DEF Dia!LoopCheck, Dia!LoopServe, Dia!LoopFail, Dia!LoopLose, Dia!LoopWake

LEMMA DialerLoopKeeps ==
    ASSUME DialerInv, NEW h \in DialedHosts, NEW l \in 1..Len(diaLoops[h]), NEW from,
           NEW to \in {"check", "dial", "serve", "wait", "done"}, Dia!LoopGoes(h, l, from, to),
           to = "done" => ~Dia!Live(diaLoops[h][l])
    PROVE  DialerInv'
<1>1. UNCHANGED <<diaAddress, diaParent, diaSync, diaActive, diaChanges>>
  BY DEF Dia!LoopGoes
<1>2. /\ diaLoops' \in [DialedHosts -> Seq(Dia!Loops)]
      /\ \A g \in DialedHosts : Len(diaLoops'[g]) = Len(diaLoops[g])
      /\ \A g \in DialedHosts : \A k \in 1..Len(diaLoops[g]) :
           /\ diaLoops'[g][k].live = diaLoops[g][k].live
           /\ diaLoops'[g][k].addr = diaLoops[g][k].addr
           /\ diaLoops'[g][k].pc = IF g = h /\ k = l THEN to ELSE diaLoops[g][k].pc
  BY DialerLoopStep DEF DialerInv
<1>3. Dia!TypeOK'
  BY <1>1, <1>2 DEF DialerInv, Dia!TypeOK
<1>4. \A g \in DialedHosts : diaActive[g] # 0 => diaActive[g] \in 1..Len(diaLoops[g])
  BY DEF DialerInv, Dia!TypeOK
<1>5. DialerOneHolder'
  BY <1>1 DEF DialerInv, DialerOneHolder
<1>9. DialerOneLoop'
  <2> SUFFICES ASSUME NEW g \in DialedHosts, NEW k \in 1..Len(diaLoops'[g]), diaLoops'[g][k].live
               PROVE  diaActive'[g] = k
    BY DEF DialerOneLoop
  <2>1. k \in 1..Len(diaLoops[g]) /\ diaLoops[g][k].live
    BY <1>2
  <2> QED
    BY <1>1, <2>1 DEF DialerInv, DialerOneLoop
<1>6. DialerActiveGoes'
  BY <1>1, <1>2, <1>4 DEF DialerInv, DialerActiveGoes, Dia!Live
<1>7. DialerMatches => DialerMatches'
  BY <1>1, <1>2, <1>4 DEF DialerMatches
<1>8. DialerSomeoneWill'
  BY <1>1, <1>7 DEF DialerInv, DialerSomeoneWill, Dia!Locked
<1> QED
  BY <1>3, <1>5, <1>6, <1>8, <1>9 DEF DialerInv

\* What the second part of a Sync does to the loops of a host.
LEMMA DialerApplied ==
    ASSUME Dia!TypeOK, NEW s \in Syncers, Dia!SyncApply(s), NEW h \in DialedHosts
    PROVE  LET want == diaSync[s].want[h]
               stale == diaActive[h] # 0 /\ diaLoops[h][diaActive[h]].addr # want
               missing == want # None /\ (diaActive[h] = 0 \/ stale)
               cut == IF stale THEN [diaLoops[h] EXCEPT ![diaActive[h]].live = FALSE] ELSE diaLoops[h]
           IN  /\ diaActive'[h] = IF missing THEN Len(diaLoops[h]) + 1
                               ELSE IF stale THEN 0 ELSE diaActive[h]
               /\ diaLoops'[h] = IF missing
                              THEN Append(cut, [addr |-> want, live |-> TRUE, pc |-> "check"])
                              ELSE cut
  BY DEF Dia!SyncApply, Dia!TypeOK

LEMMA DialerCutStep ==
    ASSUME NEW q \in Seq(Dia!Loops), NEW n \in 1..Len(q)
    PROVE  LET cut == [q EXCEPT ![n].live = FALSE]
           IN  /\ cut \in Seq(Dia!Loops) /\ Len(cut) = Len(q)
               /\ ~cut[n].live
               /\ \A k \in 1..Len(q) : k # n => cut[k] = q[k]
<1> DEFINE rec == [q[n] EXCEPT !.live = FALSE]
<1>1. q[n] \in Dia!Loops
  OBVIOUS
<1>2. rec \in Dia!Loops /\ ~rec.live
  BY <1>1 DEF Dia!Loops
<1> HIDE DEF rec
<1>3. [q EXCEPT ![n] = rec] \in Seq(Dia!Loops)
  BY <1>2
<1> QED
  BY <1>2, <1>3 DEF rec

LEMMA DialerApplyHost ==
    ASSUME DialerInv, Dia!DialerAssumption, NEW s \in Syncers, Dia!SyncApply(s), NEW h \in DialedHosts
    PROVE  /\ diaLoops'[h] \in Seq(Dia!Loops) /\ diaActive'[h] \in 0..Len(diaLoops'[h])
           /\ \A l \in 1..Len(diaLoops'[h]) : diaLoops'[h][l].live => diaActive'[h] = l
           /\ diaParent # "cancelled" /\ diaActive'[h] # 0 =>
                diaLoops'[h][diaActive'[h]].live /\ diaLoops'[h][diaActive'[h]].pc # "done"
           /\ IF diaSync[s].want[h] = None THEN diaActive'[h] = 0
              ELSE diaActive'[h] # 0 /\ diaLoops'[h][diaActive'[h]].addr = diaSync[s].want[h]
<1> DEFINE want == diaSync[s].want[h]
           stale == diaActive[h] # 0 /\ diaLoops[h][diaActive[h]].addr # want
           missing == want # None /\ (diaActive[h] = 0 \/ stale)
           cut == IF stale THEN [diaLoops[h] EXCEPT ![diaActive[h]].live = FALSE] ELSE diaLoops[h]
           new == [addr |-> want, live |-> TRUE, pc |-> "check"]
<1>1. /\ diaActive'[h] = IF missing THEN Len(diaLoops[h]) + 1 ELSE IF stale THEN 0 ELSE diaActive[h]
      /\ diaLoops'[h] = IF missing THEN Append(cut, new) ELSE cut
  BY DialerApplied DEF DialerInv
<1>2. /\ diaSync[s].pc = "holds" /\ want \in Addrs \cup {None}
      /\ diaLoops[h] \in Seq(Dia!Loops) /\ diaActive[h] \in 0..Len(diaLoops[h])
      /\ \A l \in 1..Len(diaLoops[h]) : diaLoops[h][l].addr \in Addrs
  <2>1. diaLoops[h] \in Seq(Dia!Loops) /\ diaActive[h] \in 0..Len(diaLoops[h])
    BY DEF DialerInv, Dia!TypeOK
  <2>2. \A l \in 1..Len(diaLoops[h]) : diaLoops[h][l] \in Dia!Loops
    BY <2>1
  <2>3. diaSync[s].pc = "holds" /\ diaSync[s].want \in [DialedHosts -> Addrs \cup {None}]
    BY DialerSyncPc DEF DialerInv, Dia!SyncApply
  <2> QED
    BY <2>1, <2>2, <2>3 DEF Dia!Loops
<1>3. \A l \in 1..Len(diaLoops[h]) : diaLoops[h][l].live => diaActive[h] = l
  BY DEF DialerInv, DialerOneLoop
<1>4. diaParent # "cancelled" /\ diaActive[h] # 0 =>
        diaLoops[h][diaActive[h]].live /\ diaLoops[h][diaActive[h]].pc # "done"
  BY DEF DialerInv, DialerActiveGoes
<1> HIDE DEF want
<1>5. CASE ~stale /\ ~missing
  <2>1. diaActive'[h] = diaActive[h] /\ diaLoops'[h] = diaLoops[h]
    BY <1>1, <1>5
  <2>2. IF want = None THEN diaActive[h] = 0
        ELSE diaActive[h] # 0 /\ diaLoops[h][diaActive[h]].addr = want
    BY <1>2, <1>5 DEF Dia!DialerAssumption
  <2> QED
    BY <2>1, <2>2, <1>2, <1>3, <1>4 DEF want
<1>6. CASE stale \/ missing
  <2>1. cut \in Seq(Dia!Loops) /\ Len(cut) = Len(diaLoops[h]) /\ \A l \in 1..Len(cut) : ~cut[l].live
    <3>1. CASE stale
      <4>1. diaActive[h] \in 1..Len(diaLoops[h])
        BY <1>2, <3>1
      <4> QED
        BY <4>1, <3>1, <1>2, <1>3, DialerCutStep
    <3>2. CASE ~stale
      <4>1. diaActive[h] = 0 /\ cut = diaLoops[h]
        BY <1>6, <3>2
      <4> QED
        BY <4>1, <1>2, <1>3
    <3> QED
      BY <3>1, <3>2
  <2> HIDE DEF cut
  <2>2. CASE missing
    <3>1. new \in Dia!Loops /\ new.live /\ new.pc = "check" /\ new.addr = want
      BY <1>2, <2>2 DEF Dia!Loops
    <3> HIDE DEF new
    <3>2. /\ diaLoops'[h] = Append(cut, new) /\ diaActive'[h] = Len(cut) + 1 /\ want # None
      BY <1>1, <2>1, <2>2
    <3>3. /\ diaLoops'[h] \in Seq(Dia!Loops) /\ Len(diaLoops'[h]) = Len(cut) + 1
          /\ diaLoops'[h][Len(cut) + 1] = new
          /\ \A l \in 1..Len(cut) : diaLoops'[h][l] = cut[l]
      BY <3>1, <3>2, <2>1
    <3>4. Len(cut) \in Nat
      BY <2>1
    <3> QED
      BY <3>1, <3>2, <3>3, <3>4, <2>1 DEF want
  <2>3. CASE ~missing
    <3>1. want = None /\ diaActive'[h] = 0 /\ diaLoops'[h] = cut
      BY <1>1, <1>6, <2>3
    <3> QED
      BY <3>1, <2>1 DEF want
  <2> QED
    BY <2>2, <2>3
<1> QED
  BY <1>5, <1>6

LEMMA DialerInit == Dia!Init => DialerInv
<1> SUFFICES ASSUME Dia!Init PROVE DialerInv
  OBVIOUS
<1>1. Dia!TypeOK
  BY DialerTypeInit
<1>2. DialerOneHolder /\ DialerOneLoop /\ DialerActiveGoes /\ DialerSomeoneWill
  BY DEF Dia!Init, DialerOneHolder, DialerOneLoop, DialerActiveGoes, DialerSomeoneWill, Dia!NoSync
<1> QED
  BY <1>1, <1>2 DEF DialerInv

LEMMA DialerNext ==
    ASSUME Dia!DialerAssumption, DialerInv, [Dia!Next]_diaVars
    PROVE  DialerInv'
<1> USE DEF DialerInv
<1>1. ASSUME NEW s \in Syncers, NEW h \in DialedHosts, NEW a \in Addrs \cup {None}, Dia!Change(h, a, s)
      PROVE  DialerInv'
  <2>1. UNCHANGED <<diaParent, diaActive, diaLoops>> /\ diaSync' = [diaSync EXCEPT ![s] = Dia!Owed]
        /\ diaSync[s] = Dia!NoSync /\ diaAddress' \in [DialedHosts -> Addrs \cup {None}]
    BY <1>1 DEF Dia!Change, Dia!TypeOK
  <2>2. diaSync'[s].pc = "owed" /\ \A t \in Syncers : t # s => diaSync'[t] = diaSync[t]
    BY <2>1 DEF Dia!TypeOK, Dia!Owed
  <2>3. Dia!TypeOK'
    BY <2>1 DEF Dia!TypeOK
  <2>4. DialerOneHolder' /\ DialerOneLoop' /\ DialerActiveGoes'
    BY <2>1, <2>2 DEF DialerOneHolder, DialerOneLoop, DialerActiveGoes
  <2>5. DialerSomeoneWill'
    BY <2>2 DEF DialerSomeoneWill
  <2> QED
    BY <2>3, <2>4, <2>5
<1>2. ASSUME NEW s \in Syncers, Dia!Start(s) PROVE DialerInv'
  <2>1. UNCHANGED <<diaAddress, diaActive, diaLoops>> /\ diaSync' = [diaSync EXCEPT ![s] = Dia!Owed]
        /\ diaParent = "none" /\ diaParent' = "running"
    BY <1>2 DEF Dia!Start
  <2>2. diaSync'[s].pc = "owed" /\ \A t \in Syncers : t # s => diaSync'[t] = diaSync[t]
    BY <2>1 DEF Dia!TypeOK, Dia!Owed
  <2>3. Dia!TypeOK'
    BY <2>1 DEF Dia!TypeOK
  <2>4. DialerOneHolder' /\ DialerOneLoop' /\ DialerActiveGoes'
    BY <2>1, <2>2 DEF DialerOneHolder, DialerOneLoop, DialerActiveGoes
  <2>5. DialerSomeoneWill'
    BY <2>2 DEF DialerSomeoneWill
  <2> QED
    BY <2>3, <2>4, <2>5
<1>3. ASSUME NEW s \in Syncers, Dia!SyncRead(s) PROVE DialerInv'
  <2>1. UNCHANGED <<diaAddress, diaParent, diaActive, diaLoops>> /\ ~Dia!Locked /\ diaSync[s].pc = "owed"
        /\ diaSync' = [diaSync EXCEPT ![s] = IF diaParent = "none" THEN Dia!NoSync
                                       ELSE [pc |-> "holds", want |-> diaAddress]]
    BY <1>3 DEF Dia!SyncRead, Dia!Owed
  <2>2. /\ diaParent # "none" => diaSync'[s].pc = "holds" /\ diaSync'[s].want = diaAddress
        /\ \A t \in Syncers : t # s => diaSync'[t] = diaSync[t] /\ diaSync'[t].pc # "holds"
    BY <2>1 DEF Dia!TypeOK, Dia!Locked
  <2>3. Dia!TypeOK'
    BY <2>1 DEF Dia!TypeOK
  <2>4. DialerOneHolder' /\ DialerOneLoop' /\ DialerActiveGoes'
    BY <2>1, <2>2 DEF DialerOneHolder, DialerOneLoop, DialerActiveGoes
  <2>5. DialerSomeoneWill'
    BY <2>1, <2>2 DEF DialerSomeoneWill
  <2> QED
    BY <2>3, <2>4, <2>5
<1>4. ASSUME NEW s \in Syncers, Dia!SyncApply(s) PROVE DialerInv'
  <2>1. UNCHANGED <<diaAddress, diaParent>> /\ diaSync' = [diaSync EXCEPT ![s] = Dia!NoSync]
        /\ diaSync[s].pc = "holds"
    BY <1>4 DEF Dia!SyncApply
  <2>2. diaSync'[s].pc = "none" /\ \A t \in Syncers : t # s => diaSync'[t] = diaSync[t]
    BY <2>1 DEF Dia!TypeOK, Dia!NoSync
  <2>3. Dia!TypeOK'
    <3>1. DOMAIN diaActive' = DialedHosts /\ diaActive' = [h \in DialedHosts |-> diaActive'[h]]
          /\ diaLoops' = [h \in DialedHosts |-> diaLoops'[h]]
      BY <1>4 DEF Dia!SyncApply
    <3>2. \A h \in DialedHosts : diaLoops'[h] \in Seq(Dia!Loops) /\ diaActive'[h] \in 0..Len(diaLoops'[h])
      BY <1>4, DialerApplyHost
    <3>3. \A h \in DialedHosts : diaActive'[h] \in Nat
      BY <3>2
    <3>4. diaActive' \in [DialedHosts -> Nat] /\ diaLoops' \in [DialedHosts -> Seq(Dia!Loops)]
      BY <3>1, <3>2, <3>3
    <3> QED
      BY <2>1, <3>2, <3>4 DEF Dia!TypeOK
  <2>4. DialerOneHolder'
    BY <2>2 DEF DialerOneHolder
  <2>5. DialerOneLoop'
    BY <1>4, DialerApplyHost DEF DialerOneLoop
  <2>6. DialerActiveGoes'
    BY <1>4, <2>1, DialerApplyHost DEF DialerActiveGoes
  <2>7. ~Dia!Locked'
    BY <2>1, <2>2 DEF DialerOneHolder, Dia!Locked
  <2>8. DialerSomeoneWill'
    <3>1. diaSync[s].want = diaAddress => DialerMatches'
      BY <1>4, <2>1, DialerApplyHost DEF DialerMatches
    <3>2. \A t \in Syncers : diaSync[t].pc = "owed" => diaSync'[t].pc = "owed"
      BY <2>1, <2>2
    <3>3. \A t \in Syncers : diaSync[t].pc = "holds" => t = s
      BY <2>1 DEF DialerOneHolder
    <3>4. Dia!Locked
      BY <2>1 DEF Dia!Locked
    <3> QED
      BY <3>1, <3>2, <3>3, <3>4, <2>1, <2>7 DEF DialerSomeoneWill
  <2> QED
    BY <2>3, <2>4, <2>5, <2>6, <2>8
<1>5. CASE Dia!Cancel
  <2>1. UNCHANGED <<diaAddress, diaSync, diaActive, diaLoops>> /\ diaParent' = "cancelled"
    BY <1>5 DEF Dia!Cancel
  <2> QED
    BY <2>1 DEF Dia!TypeOK, DialerOneHolder, DialerOneLoop, DialerActiveGoes, DialerSomeoneWill
<1>6. CASE Dia!StopAll
  <2>1. UNCHANGED <<diaAddress, diaParent, diaSync>> /\ diaParent = "cancelled"
        /\ diaActive' = [h \in DialedHosts |-> 0]
    BY <1>6 DEF Dia!StopAll
  <2>2. ASSUME NEW h \in DialedHosts
        PROVE  diaLoops'[h] \in Seq(Dia!Loops) /\ Len(diaLoops'[h]) = Len(diaLoops[h])
               /\ \A l \in 1..Len(diaLoops[h]) : ~diaLoops'[h][l].live
    <3> DEFINE F(l) == IF l = diaActive[h] THEN [diaLoops[h][l] EXCEPT !.live = FALSE] ELSE diaLoops[h][l]
    <3>1. diaLoops'[h] = [l \in 1..Len(diaLoops[h]) |-> F(l)]
      BY <1>6 DEF Dia!StopAll
    <3>2. diaLoops[h] \in Seq(Dia!Loops) /\ Len(diaLoops[h]) \in Nat
      BY DEF Dia!TypeOK
    <3>3. ASSUME NEW l \in 1..Len(diaLoops[h]) PROVE F(l) \in Dia!Loops /\ ~F(l).live
      <4>1. diaLoops[h][l] \in Dia!Loops /\ (diaLoops[h][l].live => diaActive[h] = l)
        BY <3>2 DEF DialerOneLoop
      <4> QED
        BY <4>1 DEF Dia!Loops
    <3> HIDE DEF F
    <3>4. [l \in 1..Len(diaLoops[h]) |-> F(l)] \in Seq(Dia!Loops)
      BY <3>2, <3>3
    <3>5. Len([l \in 1..Len(diaLoops[h]) |-> F(l)]) = Len(diaLoops[h])
      BY <3>2
    <3> QED
      BY <3>1, <3>3, <3>4, <3>5
  <2>3. diaLoops' = [h \in DialedHosts |-> diaLoops'[h]]
    BY <1>6 DEF Dia!StopAll
  <2>4. diaLoops' \in [DialedHosts -> Seq(Dia!Loops)]
    BY <2>2, <2>3
  <2>5. \A h \in DialedHosts : Len(diaLoops'[h]) \in Nat
    BY <2>4
  <2>6. Dia!TypeOK'
    BY <2>1, <2>4, <2>5 DEF Dia!TypeOK
  <2>7. DialerOneHolder' /\ DialerOneLoop' /\ DialerActiveGoes' /\ DialerSomeoneWill'
    BY <2>1, <2>2 DEF DialerOneHolder, DialerOneLoop, DialerActiveGoes, DialerSomeoneWill
  <2> QED
    BY <2>6, <2>7
<1>7. ASSUME NEW h \in DialedHosts, NEW l \in 1..Len(diaLoops[h]),
             \/ Dia!LoopCheck(h, l) \/ Dia!LoopServe(h, l) \/ Dia!LoopFail(h, l) \/ Dia!LoopLose(h, l)
             \/ Dia!LoopWake(h, l)
      PROVE  DialerInv'
  BY <1>7, DialerLoopActs, DialerLoopKeeps
<1>8. CASE UNCHANGED diaVars
  BY <1>8 DEF diaVars, Dia!TypeOK, DialerOneHolder, DialerOneLoop, DialerActiveGoes, DialerSomeoneWill, DialerMatches, Dia!Locked
<1> QED
  BY <1>1, <1>2, <1>3, <1>4, <1>5, <1>6, <1>7, <1>8 DEF Dia!Next

LEMMA DialerInvDials == DialerInv => Dia!DialsTheListed
<1> SUFFICES ASSUME DialerInv PROVE Dia!DialsTheListed
  OBVIOUS
<1>1. DialerOneLoop
  BY DEF DialerInv
<1>2. ASSUME diaParent = "running", \A s \in Syncers : diaSync[s] = Dia!NoSync PROVE DialerMatches /\ DialerActiveGoes
  BY <1>2 DEF DialerInv, DialerSomeoneWill, Dia!NoSync
<1> QED
  BY <1>1, <1>2 DEF DialerOneLoop, DialerMatches, DialerActiveGoes, Dia!DialsTheListed

\* Whatever changes and Syncs interleave, the dialer dials the hosts of the registry, where
\* it says, and no others.
THEOREM DialerPart == Spec => []DialsTheListed
<1> DEFINE Inv == part = "dialer" => DialerInv
<1>1. Init => Inv
  BY DialerInit, PartsAssumption DEF Init
<1>2. Inv /\ [Next]_vars => Inv'
  BY PartStep, DialerNext, PartsAssumption
<1>3. Inv => DialsTheListed
  BY DialerInvDials DEF DialsTheListed
<1> QED
  BY <1>1, <1>2, <1>3, PTL DEF Spec

-----------------------------------------------------------------------------
(* The enrollments. *)

LEMMA EnrollmentSame ==
    /\ Enr!Init <=> EnrP!Init
    /\ Enr!Next <=> EnrP!Next
    /\ UNCHANGED enrVars => UNCHANGED EnrP!vars
<1>1. Enr!Init <=> EnrP!Init
  BY DEF Enr!Init, EnrP!Init, Enr!Idle, EnrP!Idle, Enr!NoStage, EnrP!NoStage
<1>2. Enr!Next <=> EnrP!Next
  BY DEF Enr!Idle, EnrP!Idle, Enr!NoStage, EnrP!NoStage, Enr!Boots, EnrP!Boots, Enr!Connected,
         EnrP!Connected, Enr!Goto, EnrP!Goto, Enr!Stop, EnrP!Stop, Enr!At, EnrP!At, Enr!Begin,
         EnrP!Begin, Enr!Enroll, EnrP!Enroll, Enr!Upgrade, EnrP!Upgrade, Enr!Revive,
         EnrP!Revive, Enr!Uninstall, EnrP!Uninstall, Enr!DeleteHost, EnrP!DeleteHost,
         Enr!NewSerial, EnrP!NewSerial, Enr!IssuedTo, EnrP!IssuedTo, Enr!Issue, EnrP!Issue,
         Enr!StageBinary, EnrP!StageBinary, Enr!StageBundle, EnrP!StageBundle, Enr!Restarted,
         EnrP!Restarted, Enr!Boot, EnrP!Boot, Enr!SystemdRegister, EnrP!SystemdRegister,
         Enr!OpenrcRegister, EnrP!OpenrcRegister, Enr!CopyStaged, EnrP!CopyStaged,
         Enr!InstallScript, EnrP!InstallScript, Enr!SwapBinaries, EnrP!SwapBinaries,
         Enr!UpgradeScript, EnrP!UpgradeScript, Enr!StartService, EnrP!StartService,
         Enr!ReviveScript, EnrP!ReviveScript, Enr!GiveUp, EnrP!GiveUp, Enr!RemoveService,
         EnrP!RemoveService, Enr!Teardown, EnrP!Teardown, Enr!RevokeCopy, EnrP!RevokeCopy,
         Enr!Remove, EnrP!Remove, Enr!Rotate, EnrP!Rotate, Enr!Push, EnrP!Push, Enr!Record,
         EnrP!Record, Enr!HomeAccepts, EnrP!HomeAccepts, Enr!DialAccepts, EnrP!DialAccepts,
         Enr!Connect, EnrP!Connect, Enr!Disconnect, EnrP!Disconnect, Enr!Apply, EnrP!Apply,
         Enr!TeardownScript, EnrP!TeardownScript, Enr!Leave, EnrP!Leave, Enr!Reboot,
         EnrP!Reboot, Enr!Restart, EnrP!Restart, Enr!Next, EnrP!Next, Enr!vars, EnrP!vars,
         Enr!machineVars, EnrP!machineVars, Enr!recordVars, EnrP!recordVars, Enr!historyVars,
         EnrP!historyVars
<1>3. UNCHANGED enrVars => UNCHANGED EnrP!vars
  BY DEF enrVars, EnrP!vars, EnrP!machineVars, EnrP!recordVars, EnrP!historyVars
<1> QED
  BY <1>1, <1>2, <1>3

\* Certificates are refused of hosts that somebody asked to remove, and of no others.
THEOREM EnrollmentPart == Spec => []RevokedIsRemoved
<1> DEFINE Inv == part = "enrollment" => EnrP!EnrollmentInv
<1>0. EnrP!SerialsAssumption
  BY PartsAssumption DEF Enr!SerialsAssumption, EnrP!SerialsAssumption
<1>1. Init => Inv
  BY <1>0, EnrollmentSame, EnrP!EnrollmentInit DEF Init
<1>2. Inv /\ [Next]_vars => Inv'
  <2> SUFFICES ASSUME part = "enrollment", EnrP!EnrollmentInv, [Next]_vars PROVE  EnrP!EnrollmentInv'
    BY PartStep
  <2> QED
    BY <1>0, PartStep, EnrollmentSame, EnrP!EnrollmentNext
<1>3. Inv => RevokedIsRemoved
  BY EnrP!InvRevoked DEF RevokedIsRemoved, Enr!RevokedIsRemoved, EnrP!RevokedIsRemoved, Enr!At,
         EnrP!At
<1> QED
  BY <1>1, <1>2, <1>3, PTL DEF Spec

-----------------------------------------------------------------------------
(* The logs. *)

\* Everything the manager has of the log of r comes before line n.
LogBelow(r, n) ==
    /\ \A i \in 1..Len(logGot[r]) : logGot[r][i] < n
    /\ \A i \in 1..Len(logBuffer[r]) : logBuffer[r][i] < n
    /\ logLookedUp # None /\ logLookedUp.read = r => logLookedUp.line < n

\* The lines of r: sent to the browser, in the channel, between the lookup and the send, under
\* way from the host, and still to be read, each before the next.
LogSent(r) ==
    /\ Log!Increasing(logGot[r]) /\ Log!Increasing(logBuffer[r])
    /\ \A i \in 1..Len(logGot[r]), j \in 1..Len(logBuffer[r]) : logGot[r][i] < logBuffer[r][j]
    /\ logLookedUp # None /\ logLookedUp.read = r =>
        /\ \A i \in 1..Len(logGot[r]) : logGot[r][i] < logLookedUp.line
        /\ \A i \in 1..Len(logBuffer[r]) : logBuffer[r][i] < logLookedUp.line
    /\ LogBelow(r, logLine[r] + 1)
LogUnderWay(r) ==
    \A i \in 1..Len(logUp) : logUp[i].read = r /\ logUp[i].line # 0 =>
        /\ LogBelow(r, logUp[i].line) /\ logUp[i].line <= logLine[r]
        /\ \A j \in 1..Len(logUp) : i < j /\ logUp[j].read = r /\ logUp[j].line # 0
                => logUp[i].line < logUp[j].line

\* Requests and stops under way to the host.
LogAsks(r, stop) == \E i \in 1..Len(logDown) : logDown[i].read = r /\ logDown[i].stop = stop

\* A request is under way before it is followed, and ahead of its stop; a read that is left has
\* its stop under way, or needs none any more.
LogStopped(r) ==
    /\ logReader[r] = "new" => ~LogAsks(r, FALSE) /\ ~LogAsks(r, TRUE) /\ logFollower[r] = "none"
    /\ logReader[r] = "reading" => ~LogAsks(r, TRUE)
    /\ \A i, j \in 1..Len(logDown) : i < j /\ logDown[i].read = r /\ logDown[j].read = r
            => ~logDown[i].stop /\ logDown[j].stop
    /\ LogAsks(r, FALSE) => logFollower[r] = "none"
    /\ logReader[r] \in {"leaving", "over"} =>
        \/ r \in logRefused \/ LogAsks(r, TRUE)
        \/ ~LogAsks(r, FALSE) /\ logFollower[r] \notin {"running", "stuck"}

LogChunks == [read : Reads, line : Nat]
LogAsked == [read : Reads, stop : BOOLEAN]
LogTypes ==
    /\ logGot \in [Reads -> Seq(Nat)] /\ logBuffer \in [Reads -> Seq(Nat)]
    /\ logLookedUp \in LogChunks \cup {None} /\ logUp \in Seq(LogChunks) /\ logDown \in Seq(LogAsked)
    /\ logLine \in [Reads -> Nat]
    /\ logReader \in [Reads -> {"new", "reading", "leaving", "over"}]
    /\ logFollower \in [Reads -> {"none", "running", "stopping", "stuck", "over"}]

LogInv == LogTypes /\ \A r \in Reads : LogSent(r) /\ LogUnderWay(r) /\ LogStopped(r)

\* What the operators on sequences do, entry by entry.
LEMMA LogAppended ==
    ASSUME NEW S, NEW s \in Seq(S), NEW e \in S
    PROVE  /\ Append(s, e) \in Seq(S) /\ Len(Append(s, e)) = Len(s) + 1 /\ Len(s) \in Nat
           /\ Append(s, e)[Len(s) + 1] = e /\ \A i \in 1..Len(s) : Append(s, e)[i] = s[i]
  OBVIOUS

LEMMA LogTaken ==
    ASSUME NEW S, NEW s \in Seq(S), s # <<>>
    PROVE  /\ Tail(s) \in Seq(S) /\ Len(s) = Len(Tail(s)) + 1 /\ Len(Tail(s)) \in Nat
           /\ Head(s) = s[1] /\ s[1] \in S /\ \A i \in 1..Len(Tail(s)) : Tail(s)[i] = s[i + 1]
  BY HeadTailProperties, EmptySeq

LEMMA LogIncreasing ==
    ASSUME NEW s \in Seq(Nat)
    PROVE  Log!Increasing(s) <=> \A i, j \in 1..Len(s) : i < j => s[i] < s[j]
  BY LenProperties DEF Log!Increasing

LEMMA LogInit == Log!Init => LogInv
<1> SUFFICES ASSUME Log!Init PROVE LogInv
  OBVIOUS
<1>1. LogTypes
  BY DEF Log!Init, LogTypes
<1>2. ASSUME NEW r \in Reads PROVE LogSent(r) /\ LogUnderWay(r) /\ LogStopped(r)
  BY DEF Log!Init, LogSent, LogBelow, LogUnderWay, LogStopped, LogAsks, Log!Increasing
<1> QED
  BY <1>1, <1>2 DEF LogInv

\* The lines in the hands of the manager are in order.
LEMMA LogJoined ==
    ASSUME NEW s \in Seq(Nat), NEW t \in Seq(Nat), Log!Increasing(s), Log!Increasing(t),
           \A i \in 1..Len(s), j \in 1..Len(t) : s[i] < t[j]
    PROVE  /\ s \o t \in Seq(Nat) /\ Log!Increasing(s \o t)
           /\ \A k \in 1..Len(s \o t) :
                (\E i \in 1..Len(s) : (s \o t)[k] = s[i]) \/ \E j \in 1..Len(t) : (s \o t)[k] = t[j]
<1>1. /\ s \o t \in Seq(Nat) /\ Len(s \o t) = Len(s) + Len(t) /\ Len(s) \in Nat /\ Len(t) \in Nat
      /\ \A k \in 1..Len(s) + Len(t) : (s \o t)[k] = IF k <= Len(s) THEN s[k] ELSE t[k - Len(s)]
  BY ConcatProperties
<1>2. ASSUME NEW k \in 1..Len(s \o t) PROVE k <= Len(s) \/ k - Len(s) \in 1..Len(t)
  BY <1>1
<1>3. Log!Increasing(s \o t)
  <2>2. SUFFICES ASSUME NEW i \in 1..Len(s) + Len(t), NEW j \in 1..Len(s) + Len(t), i < j
                 PROVE  (s \o t)[i] < (s \o t)[j]
    BY <1>1, LogIncreasing
  <2>3. CASE j <= Len(s)
    <3>1. i \in 1..Len(s) /\ j \in 1..Len(s)
      BY <1>1, <2>2, <2>3
    <3>2. s[i] < s[j]
      BY <2>2, <3>1, LogIncreasing
    <3> QED
      BY <1>1, <2>2, <3>1, <3>2
  <2>4. CASE i <= Len(s) /\ j > Len(s)
    BY <1>1, <2>2, <2>4
  <2>5. CASE i > Len(s)
    <3>1. i - Len(s) \in 1..Len(t) /\ j - Len(s) \in 1..Len(t) /\ i - Len(s) < j - Len(s)
      BY <1>1, <2>2, <2>5
    <3>2. t[i - Len(s)] < t[j - Len(s)]
      BY <3>1, LogIncreasing
    <3> QED
      BY <1>1, <2>2, <2>5, <3>2
  <2> QED
    BY <1>1, <2>2, <2>3, <2>4, <2>5
<1> QED
  BY <1>1, <1>2, <1>3

LEMMA LogInvHolds == LogInv => Log!LogInOrder
<1> SUFFICES ASSUME LogInv, NEW r \in Reads
             PROVE  /\ Log!Increasing(Log!Lines(r))
                    /\ \A k \in DOMAIN Log!Lines(r) : Log!Lines(r)[k] <= logLine[r]
                    /\ \A i \in DOMAIN logUp : Log!OnTheWay(r, i) =>
                        /\ \A k \in DOMAIN Log!Lines(r) : Log!Lines(r)[k] < logUp[i].line
                        /\ \A j \in DOMAIN logUp : i < j /\ Log!OnTheWay(r, j) => logUp[i].line < logUp[j].line
                    /\ logReader[r] = "over" /\ logFollower[r] \in {"running", "stuck"} =>
                        r \in logRefused \/ \E i \in DOMAIN logDown : logDown[i] = [read |-> r, stop |-> TRUE]
  BY DEF Log!LogInOrder
<1> DEFINE g == logGot[r]
           b == logBuffer[r]
           p == Log!Pending(r)
<1>1. g \in Seq(Nat) /\ b \in Seq(Nat) /\ LogSent(r) /\ LogUnderWay(r) /\ LogStopped(r)
      /\ logUp \in Seq(LogChunks) /\ logDown \in Seq(LogAsked) /\ logLine[r] \in Nat
  BY DEF LogInv, LogTypes
<1>2. p \in Seq(Nat) /\ Log!Increasing(p)
      /\ \A j \in 1..Len(p) : logLookedUp # None /\ logLookedUp.read = r /\ p[j] = logLookedUp.line
  <2>1. CASE logLookedUp # None /\ logLookedUp.read = r
    <3>1. logLookedUp.line \in Nat /\ p = <<logLookedUp.line>>
      BY <2>1 DEF LogInv, LogTypes, LogChunks, Log!Pending
    <3> QED
      BY <2>1, <3>1 DEF Log!Increasing
  <2>2. CASE ~(logLookedUp # None /\ logLookedUp.read = r)
    BY <2>2 DEF Log!Pending, Log!Increasing
  <2> QED
    BY <2>1, <2>2
<1>3. g \o b \in Seq(Nat) /\ Log!Increasing(g \o b)
      /\ \A k \in 1..Len(g \o b) :
            (\E i \in 1..Len(g) : (g \o b)[k] = g[i]) \/ \E j \in 1..Len(b) : (g \o b)[k] = b[j]
  BY <1>1, LogJoined DEF LogSent
<1>4. \A k \in 1..Len(g \o b), j \in 1..Len(p) : (g \o b)[k] < p[j]
  BY <1>1, <1>2, <1>3 DEF LogSent
<1>5. /\ (g \o b) \o p \in Seq(Nat) /\ Log!Increasing((g \o b) \o p)
      /\ \A k \in 1..Len((g \o b) \o p) :
            \/ \E i \in 1..Len(g \o b) : ((g \o b) \o p)[k] = (g \o b)[i]
            \/ \E j \in 1..Len(p) : ((g \o b) \o p)[k] = p[j]
  <2> HIDE DEF g, b, p
  <2> QED
    BY <1>2, <1>3, <1>4, LogJoined
<1>6. Log!Lines(r) = (g \o b) \o p
  BY DEF Log!Lines
<1>7. \A n : LogBelow(r, n) => \A k \in 1..Len(Log!Lines(r)) : Log!Lines(r)[k] < n
  <2> SUFFICES ASSUME NEW n, LogBelow(r, n), NEW k \in 1..Len((g \o b) \o p)
               PROVE  ((g \o b) \o p)[k] < n
    BY <1>6
  <2>1. \A i \in 1..Len(g \o b) : (g \o b)[i] < n
    BY <1>3 DEF LogBelow
  <2>2. \A j \in 1..Len(p) : p[j] < n
    BY <1>2 DEF LogBelow
  <2> QED
    BY <1>5, <2>1, <2>2
<1>8. DOMAIN Log!Lines(r) = 1..Len(Log!Lines(r)) /\ Log!Lines(r) \in Seq(Nat)
  BY <1>5, <1>6, LenProperties
<1>9. DOMAIN logUp = 1..Len(logUp) /\ DOMAIN logDown = 1..Len(logDown)
  BY <1>1, LenProperties
<1>10. \A k \in DOMAIN Log!Lines(r) : Log!Lines(r)[k] <= logLine[r]
  BY <1>1, <1>7, <1>8, ElementOfSeq DEF LogSent
<1>11. \A i \in DOMAIN logUp : Log!OnTheWay(r, i) =>
          /\ \A k \in DOMAIN Log!Lines(r) : Log!Lines(r)[k] < logUp[i].line
          /\ \A j \in DOMAIN logUp : i < j /\ Log!OnTheWay(r, j) => logUp[i].line < logUp[j].line
  BY <1>1, <1>7, <1>8, <1>9 DEF LogUnderWay, Log!OnTheWay
<1>12. LogAsks(r, TRUE) => \E i \in DOMAIN logDown : logDown[i] = [read |-> r, stop |-> TRUE]
  <2> SUFFICES ASSUME NEW i \in 1..Len(logDown), logDown[i].read = r, logDown[i].stop = TRUE
               PROVE  logDown[i] = [read |-> r, stop |-> TRUE]
    BY <1>9 DEF LogAsks
  <2>1. logDown[i] \in LogAsked
    BY <1>1, ElementOfSeq
  <2> QED
    BY <2>1 DEF LogAsked
<1> QED
  BY <1>1, <1>5, <1>6, <1>10, <1>11, <1>12 DEF LogStopped

-----------------------------------------------------------------------------
(* The steps of the logs. *)

LEMMA LogOrderRests ==
    ASSUME LogInv, UNCHANGED <<logGot, logBuffer, logLookedUp, logUp, logLine>>
    PROVE  \A r \in Reads : LogSent(r)' /\ LogUnderWay(r)'
  BY DEF LogInv, LogSent, LogUnderWay, LogBelow

LEMMA LogStopRests ==
    ASSUME LogInv, UNCHANGED <<logReader, logDown, logFollower, logRefused>>
    PROVE  \A r \in Reads : LogStopped(r)'
  BY DEF LogInv, LogStopped, LogAsks

\* A chunk that is taken off the way leaves the others as they were.
LEMMA LogArrives ==
    ASSUME LogInv, logUp # <<>>, logUp' = Tail(logUp), UNCHANGED <<logGot, logBuffer, logLine>>,
           NEW r \in Reads,
           logLookedUp' = None \/ (logLookedUp' = Head(logUp) /\ Head(logUp).line # 0)
    PROVE  LogSent(r)' /\ LogUnderWay(r)'
<1>1. /\ Tail(logUp) \in Seq(LogChunks) /\ Len(logUp) = Len(Tail(logUp)) + 1 /\ Len(Tail(logUp)) \in Nat
      /\ Head(logUp) = logUp[1] /\ logUp[1] \in LogChunks
      /\ \A i \in 1..Len(Tail(logUp)) : Tail(logUp)[i] = logUp[i + 1]
  BY LogTaken DEF LogInv, LogTypes
<1>2. LogSent(r) /\ LogUnderWay(r) /\ logLine[r] \in Nat
  BY DEF LogInv, LogTypes
<1>3. ASSUME NEW i \in 1..Len(logUp'), logUp'[i].read = r, logUp'[i].line # 0
      PROVE  /\ LogBelow(r, logUp[i].line)' /\ logUp'[i].line <= logLine'[r]
             /\ \A j \in 1..Len(logUp') : i < j /\ logUp'[j].read = r /\ logUp'[j].line # 0
                    => logUp'[i].line < logUp'[j].line
  <2>1. i + 1 \in 1..Len(logUp) /\ logUp'[i] = logUp[i + 1] /\ 1 \in 1..Len(logUp) /\ 1 < i + 1
    BY <1>1, <1>3
  <2>2. LogBelow(r, logUp[i + 1].line) /\ logUp[i + 1].line <= logLine[r]
    BY <1>2, <1>3, <2>1 DEF LogUnderWay
  <2>3. logUp[1].read = r /\ logUp[1].line # 0 => logUp[1].line < logUp[i + 1].line
    BY <1>2, <1>3, <2>1 DEF LogUnderWay
  <2>4. LogBelow(r, logUp[i].line)'
    <3>1. logLookedUp' # None /\ logLookedUp'.read = r => logLookedUp'.line < logUp[i + 1].line
      BY <1>1, <2>3
    <3> QED
      BY <2>1, <2>2, <3>1 DEF LogBelow
  <2>5. ASSUME NEW j \in 1..Len(logUp'), i < j, logUp'[j].read = r, logUp'[j].line # 0
        PROVE  logUp'[i].line < logUp'[j].line
    <3>1. j + 1 \in 1..Len(logUp) /\ logUp'[j] = logUp[j + 1] /\ i + 1 < j + 1
      BY <1>1, <2>5
    <3> QED
      BY <1>2, <1>3, <2>1, <2>5, <3>1 DEF LogUnderWay
  <2> QED
    BY <2>1, <2>2, <2>4, <2>5
<1>4. LogUnderWay(r)'
  BY <1>3 DEF LogUnderWay
<1>5. LogSent(r)'
  <2>1. logLookedUp' # None /\ logLookedUp'.read = r =>
            LogBelow(r, logLookedUp'.line) /\ logLookedUp'.line <= logLine[r] /\ logLookedUp'.line \in Nat
    BY <1>1, <1>2 DEF LogUnderWay, LogChunks
  <2> QED
    BY <1>2, <2>1 DEF LogSent, LogBelow
<1> QED
  BY <1>4, <1>5

LEMMA LogLookup == ASSUME LogInv, Log!Lookup PROVE LogInv'
<1>1. /\ logUp # <<>> /\ logUp' = Tail(logUp)
      /\ UNCHANGED <<logReader, logGot, logBuffer, logDown, logFollower, logLine, logRefused>>
      /\ logLookedUp' = None \/ (logLookedUp' = Head(logUp) /\ Head(logUp).line # 0)
  <2> DEFINE c == Head(logUp)
  <2>1. logLookedUp' = IF logChan[c.read] = "open" /\ c.line # 0 THEN c ELSE None
    BY DEF Log!Lookup
  <2>2. logLookedUp' = None \/ (logLookedUp' = c /\ c.line # 0)
    <3>1. CASE logChan[c.read] = "open" /\ c.line # 0
      BY <2>1, <3>1
    <3>2. CASE ~(logChan[c.read] = "open" /\ c.line # 0)
      BY <2>1, <3>2
    <3> QED
      BY <3>1, <3>2
  <2> QED
    BY <2>2 DEF Log!Lookup, Log!hostVars
<1>2. \A r \in Reads : LogSent(r)' /\ LogUnderWay(r)'
  BY <1>1, LogArrives
<1>3. LogTypes'
  BY <1>1, LogTaken DEF LogInv, LogTypes
<1> QED
  BY <1>1, <1>2, <1>3, LogStopRests DEF LogInv

\* A line that is read moves from the channel to the browser.
LEMMA LogRead == ASSUME LogInv, NEW q \in Reads, Log!Read(q) PROVE LogInv'
<1>1. /\ logBuffer[q] # <<>> /\ logGot' = [logGot EXCEPT ![q] = Append(@, Head(logBuffer[q]))]
      /\ logBuffer' = [logBuffer EXCEPT ![q] = Tail(@)]
      /\ UNCHANGED <<logReader, logLookedUp, logUp, logDown, logFollower, logLine, logRefused>>
  BY DEF Log!Read, Log!hostVars
<1>2. LogTypes /\ logGot[q] \in Seq(Nat) /\ logBuffer[q] \in Seq(Nat)
  BY DEF LogInv, LogTypes
<1> DEFINE b == logBuffer[q]
           g == logGot[q]
<1>3. /\ Tail(b) \in Seq(Nat) /\ Len(b) = Len(Tail(b)) + 1 /\ Len(Tail(b)) \in Nat /\ b[1] \in Nat
      /\ Head(b) = b[1] /\ \A i \in 1..Len(Tail(b)) : Tail(b)[i] = b[i + 1]
  BY <1>1, <1>2, LogTaken
<1>4. /\ Append(g, b[1]) \in Seq(Nat) /\ Len(Append(g, b[1])) = Len(g) + 1 /\ Len(g) \in Nat
      /\ Append(g, b[1])[Len(g) + 1] = b[1] /\ \A i \in 1..Len(g) : Append(g, b[1])[i] = g[i]
  BY <1>2, <1>3, LogAppended
<1>5. logGot'[q] = Append(g, b[1]) /\ logBuffer'[q] = Tail(b)
      /\ \A r \in Reads : r # q => logGot'[r] = logGot[r] /\ logBuffer'[r] = logBuffer[r]
  BY <1>1, <1>2, <1>3 DEF LogTypes
<1>6. LogTypes'
  BY <1>1, <1>2, <1>3, <1>4 DEF LogTypes
<1>7. ASSUME NEW r \in Reads, r # q PROVE LogSent(r)' /\ LogUnderWay(r)'
  BY <1>1, <1>5, <1>7 DEF LogInv, LogSent, LogUnderWay, LogBelow
<1>8. \A n : LogBelow(q, n) => LogBelow(q, n)'
  <2> SUFFICES ASSUME NEW n, LogBelow(q, n) PROVE LogBelow(q, n)'
    OBVIOUS
  <2>1. \A i \in 1..Len(logBuffer'[q]) : logBuffer'[q][i] < n
    BY <1>3, <1>5 DEF LogBelow
  <2>2. \A i \in 1..Len(logGot'[q]) : logGot'[q][i] < n
    BY <1>3, <1>4, <1>5 DEF LogBelow
  <2> QED
    BY <1>1, <2>1, <2>2 DEF LogBelow
<1>9. LogUnderWay(q)'
  BY <1>1, <1>8 DEF LogInv, LogUnderWay
<1>10. LogSent(q)'
  <2>1. LogSent(q) /\ DOMAIN g = 1..Len(g) /\ DOMAIN b = 1..Len(b)
        /\ DOMAIN logGot'[q] = 1..Len(logGot'[q]) /\ DOMAIN logBuffer'[q] = 1..Len(logBuffer'[q])
    BY <1>2, <1>3, <1>4, <1>5, LenProperties DEF LogInv
  <2>2. Log!Increasing(logBuffer'[q])
    <3>1. \A i, j \in 1..Len(Tail(b)) : i < j => Tail(b)[i] < Tail(b)[j]
      <4> SUFFICES ASSUME NEW i \in 1..Len(Tail(b)), NEW j \in 1..Len(Tail(b)), i < j
                   PROVE  Tail(b)[i] < Tail(b)[j]
        OBVIOUS
      <4>1. i + 1 \in 1..Len(b) /\ j + 1 \in 1..Len(b) /\ i + 1 < j + 1
        BY <1>3
      <4>2. b[i + 1] < b[j + 1]
        BY <1>2, <2>1, <4>1, LogIncreasing DEF LogSent
      <4> QED
        BY <1>3, <4>2
    <3> QED
      BY <1>3, <1>5, <3>1, LogIncreasing
  <2>3. Log!Increasing(logGot'[q])
    <3>1. \A i, j \in 1..Len(Append(g, b[1])) : i < j => Append(g, b[1])[i] < Append(g, b[1])[j]
      <4> SUFFICES ASSUME NEW i \in 1..Len(Append(g, b[1])), NEW j \in 1..Len(Append(g, b[1])), i < j
                   PROVE  Append(g, b[1])[i] < Append(g, b[1])[j]
        OBVIOUS
      <4>1. CASE j = Len(g) + 1
        BY <1>3, <1>4, <2>1, <4>1 DEF LogSent
      <4>2. CASE j # Len(g) + 1
        <5>1. i \in 1..Len(g) /\ j \in 1..Len(g)
          BY <1>4, <4>2
        <5> QED
          BY <1>2, <1>4, <2>1, <5>1, LogIncreasing DEF LogSent
      <4> QED
        BY <4>1, <4>2
    <3> QED
      BY <1>4, <1>5, <3>1, LogIncreasing
  <2>4. \A i \in 1..Len(logGot'[q]), j \in 1..Len(logBuffer'[q]) : logGot'[q][i] < logBuffer'[q][j]
    <3>1. ASSUME NEW j \in 1..Len(Tail(b)) PROVE b[1] < Tail(b)[j]
      <4>1. 1 \in 1..Len(b) /\ j + 1 \in 1..Len(b) /\ 1 < j + 1
        BY <1>3
      <4> QED
        BY <1>2, <1>3, <2>1, <4>1, LogIncreasing DEF LogSent
    <3>2. \A i \in 1..Len(g), j \in 1..Len(Tail(b)) : g[i] < Tail(b)[j]
      BY <1>3, <2>1 DEF LogSent
    <3> QED
      BY <1>4, <1>5, <3>1, <3>2
  <2>5. logLookedUp # None /\ logLookedUp.read = q =>
            /\ \A i \in 1..Len(logGot'[q]) : logGot'[q][i] < logLookedUp.line
            /\ \A i \in 1..Len(logBuffer'[q]) : logBuffer'[q][i] < logLookedUp.line
    BY <1>3, <1>4, <1>5, <2>1 DEF LogSent
  <2> QED
    BY <1>1, <1>8, <2>1, <2>2, <2>3, <2>4, <2>5 DEF LogSent
<1> QED
  BY <1>1, <1>6, <1>7, <1>9, <1>10, LogStopRests DEF LogInv

\* A line that is delivered, or lost for want of room, comes after those of the channel.
LEMMA LogDeliver == ASSUME LogInv, Log!Deliver PROVE LogInv'
<1>0. logLookedUp # None /\ logLookedUp.read \in Reads /\ logLookedUp.line \in Nat
  BY DEF Log!Deliver, LogInv, LogTypes, LogChunks
<1> SUFFICES ASSUME NEW q \in Reads, NEW n \in Nat, logLookedUp.read = q, logLookedUp.line = n
             PROVE  LogInv'
  BY <1>0
<1>1. /\ logLookedUp # None /\ logLookedUp' = None
      /\ logBuffer' = [logBuffer EXCEPT ![q] = Append(@, n)] \/ logBuffer' = logBuffer
      /\ UNCHANGED <<logReader, logGot, logUp, logDown, logFollower, logLine, logRefused>>
  BY DEF Log!Deliver, Log!hostVars
<1>2. LogTypes /\ logBuffer[q] \in Seq(Nat)
  BY DEF LogInv, LogTypes
<1>3. CASE logBuffer' = logBuffer
  <2>1. LogTypes'
    BY <1>1, <1>2, <1>3 DEF LogTypes
  <2>2. ASSUME NEW r \in Reads, NEW k PROVE LogBelow(r, k) => LogBelow(r, k)'
    BY <1>1, <1>3 DEF LogBelow
  <2>3. ASSUME NEW r \in Reads PROVE LogSent(r)'
    BY <1>1, <1>3, <2>2 DEF LogInv, LogSent
  <2>4. ASSUME NEW r \in Reads PROVE LogUnderWay(r)'
    BY <1>1, <2>2 DEF LogInv, LogUnderWay
  <2> QED
    BY <1>1, <2>1, <2>3, <2>4, LogStopRests DEF LogInv
<1>4. CASE logBuffer' = [logBuffer EXCEPT ![q] = Append(@, n)]
  <2> DEFINE b == logBuffer[q]
  <2>1. /\ Append(b, n) \in Seq(Nat) /\ Len(Append(b, n)) = Len(b) + 1 /\ Len(b) \in Nat
        /\ Append(b, n)[Len(b) + 1] = n /\ \A i \in 1..Len(b) : Append(b, n)[i] = b[i]
    BY <1>2, LogAppended
  <2>2. logBuffer'[q] = Append(b, n) /\ \A r \in Reads : r # q => logBuffer'[r] = logBuffer[r]
    BY <1>2, <1>4 DEF LogTypes
  <2>3. LogTypes'
    BY <1>1, <1>2, <1>4, <2>1 DEF LogTypes
  <2>4. ASSUME NEW r \in Reads, r # q PROVE LogSent(r)' /\ LogUnderWay(r)'
    BY <1>1, <2>2, <2>4 DEF LogInv, LogSent, LogUnderWay, LogBelow
  <2>5. \A k : LogBelow(q, k) => LogBelow(q, k)'
    <3> SUFFICES ASSUME NEW k, LogBelow(q, k) PROVE LogBelow(q, k)'
      OBVIOUS
    <3>1. n < k
      BY <1>1 DEF LogBelow
    <3>2. \A i \in 1..Len(logBuffer'[q]) : logBuffer'[q][i] < k
      BY <2>1, <2>2, <3>1 DEF LogBelow
    <3> QED
      BY <1>1, <3>2 DEF LogBelow
  <2>8. LogSent(q) /\ LogUnderWay(q)
    BY <1>2 DEF LogInv
  <2>9. /\ \A i \in 1..Len(logGot[q]) : logGot[q][i] < n
        /\ \A i \in 1..Len(logBuffer[q]) : logBuffer[q][i] < n
    BY <1>1, <2>8 DEF LogSent
  <2>6. LogUnderWay(q)'
    BY <1>1, <2>5, <2>8 DEF LogUnderWay
  <2>7. LogSent(q)'
    <3>2. \A i, j \in 1..Len(Append(b, n)) : i < j => Append(b, n)[i] < Append(b, n)[j]
      <4> SUFFICES ASSUME NEW i \in 1..Len(Append(b, n)), NEW j \in 1..Len(Append(b, n)), i < j
                   PROVE  Append(b, n)[i] < Append(b, n)[j]
        OBVIOUS
      <4>1. CASE j = Len(b) + 1
        BY <2>1, <2>9, <4>1
      <4>2. CASE j # Len(b) + 1
        <5>1. i \in 1..Len(b) /\ j \in 1..Len(b)
          BY <2>1, <4>2
        <5> QED
          BY <1>2, <2>1, <2>8, <5>1, LogIncreasing DEF LogSent
      <4> QED
        BY <4>1, <4>2
    <3>3. Log!Increasing(logBuffer'[q])
      BY <2>1, <2>2, <3>2, LogIncreasing
    <3>4. \A i \in 1..Len(logGot[q]), j \in 1..Len(logBuffer'[q]) : logGot[q][i] < logBuffer'[q][j]
      BY <2>1, <2>2, <2>8, <2>9 DEF LogSent
    <3> QED
      BY <1>1, <2>5, <2>8, <3>3, <3>4 DEF LogSent
  <2> QED
    BY <1>1, <2>3, <2>4, <2>6, <2>7, LogStopRests DEF LogInv
<1> QED
  BY <1>1, <1>3, <1>4

\* What a follower sends comes after everything before it: the end of a log is no line.
LEMMA LogSends ==
    ASSUME LogInv, NEW q \in Reads, NEW n \in Nat, logUp' = Append(logUp, [read |-> q, line |-> n]),
           UNCHANGED <<logGot, logBuffer, logLookedUp>>, logLine' \in [Reads -> Nat],
           \A r \in Reads : r # q => logLine'[r] = logLine[r],
           (n = 0 /\ logLine'[q] = logLine[q]) \/ (n = logLine[q] + 1 /\ logLine'[q] = n)
    PROVE  logUp' \in Seq(LogChunks) /\ \A r \in Reads : LogSent(r)' /\ LogUnderWay(r)'
<1> DEFINE c == [read |-> q, line |-> n]
<1>1. /\ Append(logUp, c) \in Seq(LogChunks) /\ Len(Append(logUp, c)) = Len(logUp) + 1 /\ Len(logUp) \in Nat
      /\ Append(logUp, c)[Len(logUp) + 1] = c /\ \A i \in 1..Len(logUp) : Append(logUp, c)[i] = logUp[i]
  <2>1. logUp \in Seq(LogChunks) /\ c \in LogChunks
    BY DEF LogInv, LogTypes, LogChunks
  <2> HIDE DEF c
  <2> QED
    BY <2>1, LogAppended
<1>2. \A r \in Reads : LogSent(r) /\ LogUnderWay(r) /\ logLine[r] \in Nat /\ logLine'[r] \in Nat
        /\ logLine[r] <= logLine'[r]
  <2>1. LogTypes
    BY DEF LogInv
  <2>2. \A r \in Reads : logLine[r] \in Nat /\ logLine'[r] \in Nat
    BY <2>1 DEF LogTypes
  <2> QED
    BY <2>2 DEF LogInv
<1>3. c.read = q /\ c.line = n
  OBVIOUS
<1>4. \A r \in Reads : \A k : LogBelow(r, k)' <=> LogBelow(r, k)
  BY DEF LogBelow
<1>5. ASSUME NEW r \in Reads PROVE LogSent(r)'
  <2>1. LogBelow(r, logLine'[r] + 1)
    <3>1. LogBelow(r, logLine[r] + 1) /\ LogTypes
      BY <1>2 DEF LogSent, LogInv
    <3>2. \A i \in 1..Len(logGot[r]) : logGot[r][i] \in Nat
      BY <3>1, ElementOfSeq DEF LogTypes
    <3>3. \A i \in 1..Len(logBuffer[r]) : logBuffer[r][i] \in Nat
      BY <3>1, ElementOfSeq DEF LogTypes
    <3>4. logLookedUp # None => logLookedUp.line \in Nat
      BY <3>1 DEF LogTypes, LogChunks
    <3>5. logLine[r] \in Nat /\ logLine'[r] \in Nat /\ logLine[r] <= logLine'[r]
      BY <1>2
    <3>6. \A i \in 1..Len(logGot[r]) : logGot[r][i] < logLine'[r] + 1
      BY <3>1, <3>2, <3>5 DEF LogBelow
    <3>7. \A i \in 1..Len(logBuffer[r]) : logBuffer[r][i] < logLine'[r] + 1
      BY <3>1, <3>3, <3>5 DEF LogBelow
    <3>8. logLookedUp # None /\ logLookedUp.read = r => logLookedUp.line < logLine'[r] + 1
      BY <3>1, <3>4, <3>5 DEF LogBelow
    <3> QED
      BY <3>6, <3>7, <3>8 DEF LogBelow
  <2> QED
    BY <1>2, <1>4, <2>1 DEF LogSent
<1>6. ASSUME NEW r \in Reads, NEW i \in 1..Len(logUp'), logUp'[i].read = r, logUp'[i].line # 0
      PROVE  /\ LogBelow(r, logUp'[i].line) /\ logUp'[i].line <= logLine'[r]
             /\ \A j \in 1..Len(logUp') : i < j /\ logUp'[j].read = r /\ logUp'[j].line # 0
                    => logUp'[i].line < logUp'[j].line
  <2>1. CASE i = Len(logUp) + 1
    <3>1. logUp'[i] = c
      BY <1>1, <2>1
    <3>2. r = q /\ n = logLine[q] + 1 /\ logLine'[q] = n
      BY <1>3, <1>6, <3>1
    <3>3. LogBelow(q, n)
      BY <1>2, <3>2 DEF LogSent
    <3> QED
      BY <1>1, <1>3, <2>1, <3>1, <3>2, <3>3
  <2>2. CASE i # Len(logUp) + 1
    <3>1. i \in 1..Len(logUp) /\ logUp'[i] = logUp[i]
      BY <1>1, <2>2
    <3>2. logUp[i] \in LogChunks
      BY <3>1, ElementOfSeq DEF LogInv, LogTypes
    <3>3. LogBelow(r, logUp[i].line) /\ logUp[i].line <= logLine[r]
      BY <1>2, <1>6, <3>1 DEF LogUnderWay
    <3>4. ASSUME NEW j \in 1..Len(logUp'), i < j, logUp'[j].read = r, logUp'[j].line # 0
          PROVE  logUp'[i].line < logUp'[j].line
      <4>1. CASE j = Len(logUp) + 1
        <5>1. logUp'[j] = c
          BY <1>1, <4>1
        <5>2. r = q /\ logUp'[j].line = logLine[r] + 1
          BY <1>3, <3>4, <5>1
        <5> QED
          BY <1>2, <3>1, <3>2, <3>3, <5>2 DEF LogChunks
      <4>2. CASE j # Len(logUp) + 1
        <5>1. j \in 1..Len(logUp) /\ logUp'[j] = logUp[j]
          BY <1>1, <4>2
        <5> QED
          BY <1>2, <1>6, <3>1, <3>4, <5>1 DEF LogUnderWay
      <4> QED
        BY <4>1, <4>2
    <3>5. logUp'[i].line <= logLine'[r]
      BY <1>2, <3>1, <3>2, <3>3 DEF LogChunks
    <3> QED
      BY <3>1, <3>3, <3>4, <3>5
  <2> QED
    BY <2>1, <2>2
<1>7. \A r \in Reads : LogUnderWay(r)'
  BY <1>4, <1>6 DEF LogUnderWay
<1> QED
  BY <1>1, <1>5, <1>7

LEMMA LogEmit == ASSUME LogInv, NEW q \in Reads, Log!Emit(q) PROVE LogInv'
<1>1. /\ logLine' = [logLine EXCEPT ![q] = @ + 1] /\ logUp' = Append(logUp, [read |-> q, line |-> logLine[q] + 1])
      /\ UNCHANGED <<logReader, logGot, logBuffer, logLookedUp, logDown, logFollower, logRefused>>
  BY DEF Log!Emit, Log!Chunk, Log!hubVars
<1>2. /\ logLine' \in [Reads -> Nat] /\ logLine[q] + 1 \in Nat /\ logLine'[q] = logLine[q] + 1
      /\ \A r \in Reads : r # q => logLine'[r] = logLine[r]
  BY <1>1 DEF LogInv, LogTypes
<1>3. logUp' \in Seq(LogChunks) /\ \A r \in Reads : LogSent(r)' /\ LogUnderWay(r)'
  BY <1>1, <1>2, LogSends
<1>4. LogTypes'
  BY <1>1, <1>2, <1>3 DEF LogInv, LogTypes
<1> QED
  BY <1>1, <1>3, <1>4, LogStopRests DEF LogInv

\* The stream is lost, with what is under way: a stop that is lost with it is refused.
LEMMA LogBroken ==
    ASSUME LogInv, Log!Broken, UNCHANGED <<logGot, logBuffer>>, logLookedUp' \in {None, logLookedUp},
           logReader' = logReader
              \/ logReader' = [r \in Reads |-> IF logReader[r] = "new" THEN "new" ELSE "over"]
    PROVE  LogInv'
<1>1. /\ logDown' = <<>> /\ logUp' = <<>> /\ UNCHANGED logLine
      /\ logFollower' = [r \in Reads |-> IF logFollower[r] = "none" THEN "none" ELSE "over"]
      /\ logRefused' = logRefused \cup {r \in Reads : \E i \in DOMAIN logDown : logDown[i].read = r}
  BY DEF Log!Broken
<1>2. LogTypes'
  BY <1>1 DEF LogInv, LogTypes
<1>3. ASSUME NEW r \in Reads PROVE LogSent(r)' /\ LogUnderWay(r)'
  BY <1>1, <1>3 DEF LogInv, LogSent, LogUnderWay, LogBelow
<1>4. ASSUME NEW r \in Reads PROVE LogStopped(r)'
  <2>1. ~LogAsks(r, TRUE)' /\ ~LogAsks(r, FALSE)' /\ logFollower'[r] \in {"none", "over"}
        /\ (logFollower[r] = "none" => logFollower'[r] = "none")
    BY <1>1 DEF LogAsks
  <2>2. LogStopped(r) /\ (logReader'[r] = "new" => logReader[r] = "new")
    BY DEF LogInv, LogTypes
  <2>3. logReader'[r] = "new" => logFollower'[r] = "none"
    BY <2>1, <2>2 DEF LogStopped
  <2>4. \A i, j \in 1..Len(logDown') : i < j /\ logDown'[i].read = r /\ logDown'[j].read = r
            => ~logDown'[i].stop /\ logDown'[j].stop
    <3>1. Len(logDown') = 0
      BY <1>1
    <3> QED
      BY <3>1
  <2>5. logFollower'[r] \notin {"running", "stuck"}
    BY <2>1
  <2>6. LogAsks(r, FALSE)' => logFollower'[r] = "none"
    BY <2>1
  <2>7. logReader'[r] = "reading" => ~LogAsks(r, TRUE)'
    BY <2>1
  <2>8. logReader'[r] = "new" => ~LogAsks(r, FALSE)' /\ ~LogAsks(r, TRUE)' /\ logFollower'[r] = "none"
    BY <2>1, <2>3
  <2>9. ~LogAsks(r, FALSE)'
    BY <2>1
  <2> QED
    BY <2>4, <2>5, <2>6, <2>7, <2>8, <2>9 DEF LogStopped
<1> QED
  BY <1>2, <1>3, <1>4 DEF LogInv

\* A request or a stop is sent after those under way.
LEMMA LogSendsDown ==
    ASSUME LogInv, NEW q \in Reads, NEW stop \in BOOLEAN, Log!Asked(q, stop)
    PROVE  /\ logDown' \in Seq(LogAsked) /\ Len(logDown') = Len(logDown) + 1 /\ Len(logDown) \in Nat
           /\ logDown'[Len(logDown) + 1].read = q /\ logDown'[Len(logDown) + 1].stop = stop
           /\ \A i \in 1..Len(logDown) : logDown'[i] = logDown[i]
           /\ \A r \in Reads, s \in BOOLEAN :
                LogAsks(r, s)' <=> LogAsks(r, s) \/ (r = q /\ s = stop)
<1> DEFINE m == [read |-> q, stop |-> stop]
<1>1. m \in LogAsked /\ m.read = q /\ m.stop = stop /\ logDown' = Append(logDown, m)
      /\ logDown \in Seq(LogAsked)
  BY DEF Log!Asked, LogAsked, LogInv, LogTypes
<1> HIDE DEF m
<1>2. /\ logDown' \in Seq(LogAsked) /\ Len(logDown') = Len(logDown) + 1 /\ Len(logDown) \in Nat
      /\ logDown'[Len(logDown) + 1] = m /\ \A i \in 1..Len(logDown) : logDown'[i] = logDown[i]
  BY <1>1, LogAppended
<1>3. ASSUME NEW r \in Reads, NEW s \in BOOLEAN
      PROVE  LogAsks(r, s)' <=> LogAsks(r, s) \/ (r = q /\ s = stop)
  <2>1. LogAsks(r, s)' => LogAsks(r, s) \/ (r = q /\ s = stop)
    <3> SUFFICES ASSUME NEW i \in 1..Len(logDown'), logDown'[i].read = r, logDown'[i].stop = s
                 PROVE  LogAsks(r, s) \/ (r = q /\ s = stop)
      BY DEF LogAsks
    <3>1. i = Len(logDown) + 1 \/ i \in 1..Len(logDown)
      BY <1>2
    <3> QED
      BY <1>1, <1>2, <3>1 DEF LogAsks
  <2>2. LogAsks(r, s) => LogAsks(r, s)'
    <3> SUFFICES ASSUME NEW i \in 1..Len(logDown), logDown[i].read = r, logDown[i].stop = s
                 PROVE  LogAsks(r, s)'
      BY DEF LogAsks
    <3>1. i \in 1..Len(logDown')
      BY <1>2
    <3> QED
      BY <1>2, <3>1 DEF LogAsks
  <2>3. r = q /\ s = stop => LogAsks(r, s)'
    <3>1. Len(logDown) + 1 \in 1..Len(logDown')
      BY <1>2
    <3> QED
      BY <1>1, <1>2, <3>1 DEF LogAsks
  <2> QED
    BY <2>1, <2>2, <2>3
<1> QED
  BY <1>1, <1>2, <1>3

LEMMA LogOpen == ASSUME LogInv, NEW q \in Reads, Log!Open(q) PROVE LogInv'
<1>1. /\ logReader[q] = "new"
      /\ UNCHANGED <<logGot, logBuffer, logLookedUp, logUp, logLine, logFollower, logRefused>>
      /\ \/ Log!Asked(q, FALSE) /\ logReader' = [logReader EXCEPT ![q] = "reading"]
         \/ UNCHANGED logDown /\ logReader' = [logReader EXCEPT ![q] = "over"]
  BY DEF Log!Open, Log!hostVars
<1>2. ~LogAsks(q, FALSE) /\ ~LogAsks(q, TRUE) /\ logFollower[q] = "none" /\ LogTypes
  BY <1>1 DEF LogInv, LogStopped
<1>3. CASE UNCHANGED logDown /\ logReader' = [logReader EXCEPT ![q] = "over"]
  <2>1. LogTypes'
    BY <1>1, <1>2, <1>3 DEF LogTypes
  <2>2. logReader'[q] = "over" /\ \A r \in Reads : r # q => logReader'[r] = logReader[r]
    BY <1>2, <1>3 DEF LogTypes
  <2>3. \A r \in Reads : LogStopped(r)'
    BY <1>1, <1>2, <1>3, <2>2 DEF LogInv, LogStopped, LogAsks
  <2> QED
    BY <1>1, <2>1, <2>3, LogOrderRests DEF LogInv
<1>4. CASE Log!Asked(q, FALSE) /\ logReader' = [logReader EXCEPT ![q] = "reading"]
  <2>1. LogTypes'
    BY <1>1, <1>2, <1>4, LogSendsDown DEF LogTypes
  <2>2. logReader'[q] = "reading" /\ \A r \in Reads : r # q => logReader'[r] = logReader[r]
    BY <1>2, <1>4 DEF LogTypes
  <2>3. /\ Len(logDown') = Len(logDown) + 1 /\ Len(logDown) \in Nat
        /\ logDown'[Len(logDown) + 1].read = q /\ logDown'[Len(logDown) + 1].stop = FALSE
        /\ \A i \in 1..Len(logDown) : logDown'[i] = logDown[i]
        /\ \A r \in Reads, s \in BOOLEAN : LogAsks(r, s)' <=> LogAsks(r, s) \/ (r = q /\ s = FALSE)
    BY <1>4, LogSendsDown
  <2>4. ASSUME NEW r \in Reads, NEW i \in 1..Len(logDown'), NEW j \in 1..Len(logDown'), i < j,
               logDown'[i].read = r, logDown'[j].read = r
        PROVE  ~logDown'[i].stop /\ logDown'[j].stop
    <3>1. i \in 1..Len(logDown) /\ logDown[i].read = r
      BY <2>3, <2>4
    <3>2. r # q
      <4>1. logDown[i].stop \in BOOLEAN
        <5>1. logDown \in Seq(LogAsked) /\ i \in 1..Len(logDown)
          BY <1>2, <3>1 DEF LogTypes
        <5>2. logDown[i] \in LogAsked
          BY <5>1, ElementOfSeq
        <5> QED
          BY <5>2 DEF LogAsked
      <4> QED
        BY <1>2, <3>1, <4>1 DEF LogAsks
    <3>3. j \in 1..Len(logDown) /\ logDown[j].read = r
      BY <2>3, <2>4, <3>2
    <3>4. logDown'[i] = logDown[i] /\ logDown'[j] = logDown[j] /\ LogStopped(r)
      BY <2>3, <3>1, <3>3 DEF LogInv
    <3> QED
      BY <2>4, <3>1, <3>3, <3>4 DEF LogStopped
  <2>5. ASSUME NEW r \in Reads PROVE LogStopped(r)'
    <3>1. LogStopped(r) /\ logFollower'[r] = logFollower[r] /\ logRefused' = logRefused
      BY <1>1 DEF LogInv
    <3>2. LogAsks(r, TRUE)' <=> LogAsks(r, TRUE)
      BY <2>3
    <3>3. CASE r = q
      <4>1. LogAsks(r, FALSE)' /\ ~LogAsks(r, TRUE)' /\ logReader'[r] = "reading" /\ logFollower'[r] = "none"
        BY <1>2, <2>2, <2>3, <3>1, <3>2, <3>3
      <4> QED
        BY <2>4, <4>1, Zenon DEF LogStopped
    <3>4. CASE r # q
      <4>1. (LogAsks(r, FALSE)' <=> LogAsks(r, FALSE)) /\ logReader'[r] = logReader[r]
        BY <2>2, <2>3, <3>4
      <4> QED
        BY <2>4, <3>1, <3>2, <4>1, Zenon DEF LogStopped
    <3> QED
      BY <3>3, <3>4
  <2> QED
    BY <1>1, <2>1, <2>5, LogOrderRests DEF LogInv
<1> QED
  BY <1>1, <1>3, <1>4

LEMMA LogLeave == ASSUME LogInv, NEW q \in Reads, Log!Leave(q) PROVE LogInv'
<1>1. /\ logReader[q] = "reading" /\ logReader' = [logReader EXCEPT ![q] = "leaving"]
      /\ UNCHANGED <<logGot, logBuffer, logLookedUp, logUp, logLine, logFollower>>
      /\ \/ Log!Asked(q, TRUE) /\ UNCHANGED logRefused
         \/ UNCHANGED logDown /\ logRefused' = logRefused \cup {q}
  BY DEF Log!Leave, Log!hostVars
<1>2. ~LogAsks(q, TRUE) /\ LogTypes
  BY <1>1 DEF LogInv, LogStopped
<1>3. logReader'[q] = "leaving" /\ \A r \in Reads : r # q => logReader'[r] = logReader[r]
  BY <1>1, <1>2 DEF LogTypes
<1>4. CASE UNCHANGED logDown /\ logRefused' = logRefused \cup {q}
  <2>1. LogTypes'
    BY <1>1, <1>2, <1>4 DEF LogTypes
  <2>2. \A r \in Reads : LogStopped(r)'
    BY <1>1, <1>3, <1>4 DEF LogInv, LogStopped, LogAsks
  <2> QED
    BY <1>1, <2>1, <2>2, LogOrderRests DEF LogInv
<1>5. CASE Log!Asked(q, TRUE) /\ UNCHANGED logRefused
  <2>1. LogTypes'
    BY <1>1, <1>2, <1>5, LogSendsDown DEF LogTypes
  <2>3. /\ Len(logDown') = Len(logDown) + 1 /\ Len(logDown) \in Nat
        /\ logDown'[Len(logDown) + 1].read = q /\ logDown'[Len(logDown) + 1].stop = TRUE
        /\ \A i \in 1..Len(logDown) : logDown'[i] = logDown[i]
        /\ \A r \in Reads, s \in BOOLEAN : LogAsks(r, s)' <=> LogAsks(r, s) \/ (r = q /\ s = TRUE)
    BY <1>5, LogSendsDown
  <2>4. ASSUME NEW r \in Reads, NEW i \in 1..Len(logDown'), NEW j \in 1..Len(logDown'), i < j,
               logDown'[i].read = r, logDown'[j].read = r
        PROVE  ~logDown'[i].stop /\ logDown'[j].stop
    <3>1. i \in 1..Len(logDown) /\ logDown'[i] = logDown[i]
      BY <2>3, <2>4
    <3>2. CASE j \in 1..Len(logDown)
      <4>1. logDown'[j] = logDown[j] /\ LogStopped(r)
        BY <2>3, <3>2 DEF LogInv
      <4> QED
        BY <2>4, <3>1, <3>2, <4>1 DEF LogStopped
    <3>3. CASE j = Len(logDown) + 1
      <4>1. r = q /\ logDown'[j].stop
        BY <2>3, <2>4, <3>3
      <4>2. logDown[i].stop \in BOOLEAN
        <5>1. logDown \in Seq(LogAsked) /\ i \in 1..Len(logDown)
          BY <1>2, <3>1 DEF LogTypes
        <5>2. logDown[i] \in LogAsked
          BY <5>1, ElementOfSeq
        <5> QED
          BY <5>2 DEF LogAsked
      <4> QED
        BY <1>2, <2>4, <3>1, <4>1, <4>2 DEF LogAsks
    <3> QED
      BY <2>3, <3>2, <3>3
  <2>5. ASSUME NEW r \in Reads PROVE LogStopped(r)'
    <3>1. LogStopped(r) /\ logFollower'[r] = logFollower[r] /\ logRefused' = logRefused
      BY <1>1, <1>5 DEF LogInv
    <3>2. LogAsks(r, FALSE)' <=> LogAsks(r, FALSE)
      BY <2>3
    <3>3. CASE r = q
      <4>1. LogAsks(r, TRUE)' /\ logReader'[r] = "leaving" /\ logReader[r] = "reading"
        BY <1>1, <1>3, <2>3, <3>3
      <4> QED
        BY <2>4, <3>1, <3>2, <4>1 DEF LogStopped
    <3>4. CASE r # q
      <4>1. (LogAsks(r, TRUE)' <=> LogAsks(r, TRUE)) /\ logReader'[r] = logReader[r]
        BY <1>3, <2>3, <3>4
      <4> QED
        BY <2>4, <3>1, <3>2, <4>1, Zenon DEF LogStopped
    <3> QED
      BY <3>3, <3>4
  <2> QED
    BY <1>1, <2>1, <2>5, LogOrderRests DEF LogInv
<1> QED
  BY <1>1, <1>4, <1>5

LEMMA LogCloses == ASSUME LogInv, NEW q \in Reads, Log!CloseLog(q) PROVE LogInv'
<1>1. /\ logReader[q] = "leaving" /\ logReader' = [logReader EXCEPT ![q] = "over"]
      /\ UNCHANGED <<logGot, logBuffer, logLookedUp, logUp, logDown, logLine, logFollower, logRefused>>
  BY DEF Log!CloseLog, Log!hostVars
<1>2. LogTypes' /\ \A r \in Reads : logReader'[r] = IF r = q THEN "over" ELSE logReader[r]
  BY <1>1 DEF LogInv, LogTypes
<1>3. \A r \in Reads : LogStopped(r)'
  BY <1>1, <1>2 DEF LogInv, LogStopped, LogAsks
<1> QED
  BY <1>1, <1>2, <1>3, LogOrderRests DEF LogInv

\* A follower that is over or stuck was under way.
LEMMA LogFollows ==
    ASSUME LogInv, NEW q \in Reads, NEW f \in {"stuck", "over"},
           logFollower[q] \in {"running", "stopping"}, f = "stuck" => logFollower[q] = "running",
           logFollower' = [logFollower EXCEPT ![q] = f], UNCHANGED <<logReader, logDown, logRefused>>
    PROVE  \A r \in Reads : LogStopped(r)'
<1>1. \A r \in Reads : logFollower'[r] = IF r = q THEN f ELSE logFollower[r]
  BY DEF LogInv, LogTypes
<1> QED
  BY <1>1 DEF LogInv, LogStopped, LogAsks

LEMMA LogEnds == ASSUME LogInv, NEW q \in Reads, Log!Ends(q) PROVE LogInv'
<1>1. /\ logFollower[q] \in {"running", "stopping"} /\ logFollower' = [logFollower EXCEPT ![q] = "over"]
      /\ logUp' = Append(logUp, [read |-> q, line |-> 0])
      /\ UNCHANGED <<logReader, logGot, logBuffer, logLookedUp, logDown, logLine, logRefused>>
  BY DEF Log!Ends, Log!Chunk, Log!hubVars
<1>2. logLine' \in [Reads -> Nat] /\ LogTypes
  BY <1>1 DEF LogInv, LogTypes
<1>3. logUp' \in Seq(LogChunks) /\ \A r \in Reads : LogSent(r)' /\ LogUnderWay(r)'
  <2>1. 0 \in Nat /\ logLine'[q] = logLine[q] /\ \A r \in Reads : r # q => logLine'[r] = logLine[r]
    BY <1>1
  <2>2. UNCHANGED <<logGot, logBuffer, logLookedUp>>
    BY <1>1
  <2> QED
    BY <1>1, <1>2, <2>1, <2>2, LogSends
<1>4. LogTypes'
  BY <1>1, <1>2, <1>3 DEF LogTypes
<1>5. \A r \in Reads : LogStopped(r)'
  BY <1>1, LogFollows
<1> QED
  BY <1>3, <1>4, <1>5 DEF LogInv

LEMMA LogTooLong == ASSUME LogInv, NEW q \in Reads, Log!TooLong(q) PROVE LogInv'
<1>1. /\ logFollower[q] = "running" /\ logFollower' = [logFollower EXCEPT ![q] = "stuck"]
      /\ UNCHANGED <<logReader, logGot, logBuffer, logLookedUp, logUp, logDown, logLine, logRefused>>
  BY DEF Log!TooLong, Log!hubVars
<1>2. LogTypes'
  BY <1>1 DEF LogInv, LogTypes
<1>3. \A r \in Reads : LogStopped(r)'
  BY <1>1, LogFollows
<1> QED
  BY <1>1, <1>2, <1>3, LogOrderRests DEF LogInv

\* A stop that arrives finds the follower of its request, and nothing of that read is under way
\* after it.
LEMMA LogOnRequest == ASSUME LogInv, Log!OnLogRequest PROVE LogInv'
<1>0. logDown # <<>> /\ logDown \in Seq(LogAsked)
  BY DEF Log!OnLogRequest, LogInv, LogTypes
<1>1. /\ Tail(logDown) \in Seq(LogAsked) /\ Len(logDown) = Len(Tail(logDown)) + 1 /\ Len(Tail(logDown)) \in Nat
      /\ Head(logDown) = logDown[1] /\ logDown[1] \in LogAsked
      /\ \A i \in 1..Len(Tail(logDown)) : Tail(logDown)[i] = logDown[i + 1]
  BY <1>0, LogTaken
<1> SUFFICES ASSUME NEW q \in Reads, NEW stop \in BOOLEAN, logDown[1].read = q, logDown[1].stop = stop
             PROVE  LogInv'
  BY <1>1 DEF LogAsked
<1>2. /\ logDown' = Tail(logDown)
      /\ IF stop THEN Log!StopLog(q)
         ELSE logFollower' \in {[logFollower EXCEPT ![q] = f] : f \in {"running", "over"}}
      /\ UNCHANGED <<logReader, logGot, logBuffer, logLookedUp, logUp, logLine, logRefused>>
  BY <1>1 DEF Log!OnLogRequest, Log!hubVars
<1>3. /\ logFollower' \in [Reads -> {"none", "running", "stopping", "stuck", "over"}]
      /\ \A r \in Reads : r # q => logFollower'[r] = logFollower[r]
      /\ stop => (logFollower[q] = "none" => logFollower'[q] = "none") /\ logFollower'[q] \notin {"running", "stuck"}
  <2>1. logFollower \in [Reads -> {"none", "running", "stopping", "stuck", "over"}]
    BY DEF LogInv, LogTypes
  <2>2. PICK f \in {"none", "running", "stopping", "stuck", "over"} :
            /\ logFollower' = [logFollower EXCEPT ![q] = f]
            /\ stop => (logFollower[q] = "none" => f = "none") /\ f \notin {"running", "stuck"}
    <3>1. CASE stop
      <4>1. logFollower' = [logFollower EXCEPT ![q] =
                IF logFollower[q] = "running" THEN "stopping"
                ELSE IF logFollower[q] = "stuck" THEN "over" ELSE logFollower[q]]
        BY <1>2, <3>1 DEF Log!StopLog
      <4> QED
        BY <2>1, <4>1
    <3>2. CASE ~stop
      BY <1>2, <3>2
    <3> QED
      BY <3>1, <3>2
  <2> QED
    BY <2>1, <2>2
<1>4. LogTypes'
  BY <1>1, <1>2, <1>3 DEF LogInv, LogTypes
<1>5. ASSUME NEW r \in Reads, NEW s \in BOOLEAN
      PROVE  /\ LogAsks(r, s)' => LogAsks(r, s)
             /\ LogAsks(r, s) => LogAsks(r, s)' \/ (r = q /\ s = stop)
  <2>1. LogAsks(r, s)' => LogAsks(r, s)
    <3> SUFFICES ASSUME NEW i \in 1..Len(logDown'), logDown'[i].read = r, logDown'[i].stop = s
                 PROVE  LogAsks(r, s)
      BY DEF LogAsks
    <3>1. i + 1 \in 1..Len(logDown) /\ logDown[i + 1] = logDown'[i]
      BY <1>1, <1>2
    <3> QED
      BY <3>1 DEF LogAsks
  <2>2. LogAsks(r, s) => LogAsks(r, s)' \/ (r = q /\ s = stop)
    <3> SUFFICES ASSUME NEW i \in 1..Len(logDown), logDown[i].read = r, logDown[i].stop = s, i # 1
                 PROVE  LogAsks(r, s)'
      BY DEF LogAsks
    <3>1. i - 1 \in 1..Len(logDown') /\ logDown'[i - 1] = logDown[(i - 1) + 1] /\ (i - 1) + 1 = i
      BY <1>1, <1>2
    <3> QED
      BY <3>1 DEF LogAsks
  <2> QED
    BY <2>1, <2>2
<1>6. \A r \in Reads : LogStopped(r) /\ 1 \in 1..Len(logDown)
  BY <1>1 DEF LogInv
<1>7. ASSUME NEW i \in 1..Len(logDown'), logDown'[i].read = q PROVE ~stop /\ logDown'[i].stop
  <2>1. i + 1 \in 1..Len(logDown) /\ logDown[i + 1] = logDown'[i] /\ 1 < i + 1
    BY <1>1, <1>2
  <2> QED
    BY <1>6, <1>7, <2>1 DEF LogStopped
<1>8. ~LogAsks(q, FALSE)' /\ (stop => ~LogAsks(q, TRUE)')
  BY <1>7 DEF LogAsks
<1>9. ASSUME NEW r \in Reads, NEW i \in 1..Len(logDown'), NEW j \in 1..Len(logDown'), i < j,
             logDown'[i].read = r, logDown'[j].read = r
      PROVE  ~logDown'[i].stop /\ logDown'[j].stop
  <2>1. /\ i + 1 \in 1..Len(logDown) /\ j + 1 \in 1..Len(logDown) /\ i + 1 < j + 1
        /\ logDown[i + 1] = logDown'[i] /\ logDown[j + 1] = logDown'[j]
    BY <1>1, <1>2, <1>9
  <2>2. LogStopped(r) /\ logDown[i + 1].read = r /\ logDown[j + 1].read = r
    BY <1>6, <1>9, <2>1
  <2>3. ~logDown[i + 1].stop /\ logDown[j + 1].stop
    BY <2>1, <2>2 DEF LogStopped
  <2> QED
    BY <2>1, <2>3
<1>10. LogAsks(q, stop)
  BY <1>6 DEF LogAsks
<1>11. LogStopped(q)'
  <2>1. logReader[q] # "new" /\ (LogAsks(q, TRUE)' => LogAsks(q, TRUE)) /\ LogStopped(q)
    BY <1>5, <1>6, <1>10 DEF LogStopped
  <2>2. LogAsks(q, FALSE)' => logFollower'[q] = "none"
    BY <1>8
  <2>3. logReader'[q] \in {"leaving", "over"} =>
            \/ q \in logRefused' \/ LogAsks(q, TRUE)'
            \/ ~LogAsks(q, FALSE)' /\ logFollower'[q] \notin {"running", "stuck"}
    <3>1. CASE stop
      BY <1>3, <1>8, <3>1
    <3>2. CASE ~stop
      <4>1. LogAsks(q, FALSE) /\ (LogAsks(q, TRUE) => LogAsks(q, TRUE)')
        BY <1>5, <1>10, <3>2
      <4> QED
        BY <1>2, <2>1, <4>1 DEF LogStopped
    <3> QED
      BY <3>1, <3>2
  <2>4. \A i, j \in 1..Len(logDown') : i < j /\ logDown'[i].read = q /\ logDown'[j].read = q
            => ~logDown'[i].stop /\ logDown'[j].stop
    BY <1>9
  <2> QED
    BY <1>2, <2>1, <2>2, <2>3, <2>4 DEF LogStopped
<1>12. ASSUME NEW r \in Reads, r # q PROVE LogStopped(r)'
  BY <1>2, <1>3, <1>5, <1>6, <1>9, <1>12 DEF LogStopped
<1> QED
  BY <1>2, <1>4, <1>11, <1>12, LogOrderRests DEF LogInv

LEMMA LogStep == ASSUME LogInv, Log!Next \/ UNCHANGED logVars PROVE LogInv'
<1>1. CASE UNCHANGED logVars \/ Log!Reconnect
  <2>1. UNCHANGED <<logReader, logGot, logBuffer, logLookedUp, logDown, logUp, logFollower, logLine, logRefused>>
    BY <1>1 DEF logVars, Log!Reconnect, Log!hubVars, Log!hostVars
  <2> QED
    BY <2>1, LogOrderRests, LogStopRests DEF LogInv, LogTypes
<1>2. CASE Log!Break
  BY <1>2, LogBroken DEF Log!Break, Log!hubVars
<1>3. CASE Log!Panic
  BY <1>3, LogBroken DEF Log!Panic
<1> QED
  BY <1>1, <1>2, <1>3, LogOpen, LogRead, LogLeave, LogCloses, LogEmit, LogEnds, LogTooLong, LogLookup,
     LogDeliver, LogOnRequest DEF Log!Next

\* A reader sees each line at most once and in order, whatever is lost between the two, and what
\* nobody reads is not followed, unless the stop was lost.
THEOREM LogsPart == Spec => []LogInOrder
<1> DEFINE Inv == part = "logs" => LogInv
<1>1. Init => Inv
  BY LogInit DEF Init
<1>2. Inv /\ [Next]_vars => Inv'
  BY PartStep, LogStep
<1>3. Inv => LogInOrder
  BY LogInvHolds DEF LogInOrder
<1> QED
  BY <1>1, <1>2, <1>3, PTL DEF Spec

(* The types of the logs: a line that is looked up is not the end of a log. *)

LogTyped ==
    /\ Log!TypeOK /\ logBuffer \in [Reads -> Seq(1..MaxLines)]
    /\ logLookedUp # None => logLookedUp.line # 0

LEMMA LogBounds == {ChanCap, MaxLines} \subseteq Nat
  BY PartsAssumption DEF Log!LogsAssumption

LEMMA LogTypedInit == Log!Init => LogTyped
  BY LogBounds DEF Log!Init, LogTyped, Log!TypeOK, Log!Chunks

\* What breaks the stream leaves nothing under way.
LEMMA LogTypedBroken ==
    ASSUME LogTyped, Log!Panic \/ Log!Break
    PROVE  LogTyped'
<1>1. logFollower' \in [Reads -> {"none", "running", "stopping", "stuck", "over"}]
  BY DEF Log!Panic, Log!Break, Log!Broken
<1>2. logDown' \in Seq([read : Reads, stop : BOOLEAN]) /\ logUp' \in Seq(Log!Chunks) /\ logLine' = logLine
  <2>1. logDown' = <<>> /\ logUp' = <<>> /\ logLine' = logLine
    BY DEF Log!Panic, Log!Break, Log!Broken
  <2> QED
    BY <2>1
<1>3. /\ logReader' \in [Reads -> {"new", "reading", "leaving", "over"}]
      /\ logChan' \in [Reads -> {"none", "open", "closed"}]
  BY DEF LogTyped, Log!TypeOK, Log!Panic, Log!Break, Log!hubVars
<1>4. /\ logBuffer' = logBuffer /\ logGot' = logGot /\ logConnected' \in BOOLEAN
      /\ logLookedUp' = logLookedUp \/ logLookedUp' = None
  BY DEF Log!Panic, Log!Break, Log!hubVars
<1>5. Log!Chunks' = Log!Chunks
  BY DEF Log!Chunks
<1>6. /\ logLookedUp' \in Log!Chunks \cup {None}
      /\ logLookedUp' # None => logLookedUp'.line # 0
  BY <1>4 DEF LogTyped, Log!TypeOK
<1> QED
  BY <1>1, <1>2, <1>3, <1>4, <1>5, <1>6 DEF LogTyped, Log!TypeOK

\* A line goes from the host to the manager, into the channel, and to the browser.
LEMMA LogTypedLine ==
    ASSUME LogTyped,
           Log!Lookup \/ Log!Deliver \/ \E r \in Reads : Log!Read(r) \/ Log!Emit(r) \/ Log!Ends(r)
    PROVE  LogTyped'
<1>t. LogTyped /\ Log!TypeOK
  BY DEF LogTyped
<1>1. CASE Log!Lookup
  <2>1. logUp \in Seq(Log!Chunks) /\ logUp # <<>>
    BY <1>1 DEF LogTyped, Log!TypeOK, Log!Lookup
  <2>2. Tail(logUp) \in Seq(Log!Chunks) /\ Head(logUp) \in Log!Chunks
    BY <2>1, LogTaken
  <2>3. logUp' = Tail(logUp)
    BY <1>1 DEF Log!Lookup
  <2>4. logLookedUp' \in Log!Chunks \cup {None} /\ (logLookedUp' # None => logLookedUp'.line # 0)
    BY <1>1, <2>2 DEF Log!Lookup
  <2>5. UNCHANGED <<logReader, logChan, logBuffer, logGot, logFollower, logLine, logConnected, logDown>>
    BY <1>1 DEF Log!Lookup, Log!hostVars
  <2> QED
    BY <1>t, <2>2, <2>3, <2>4, <2>5 DEF LogTyped, Log!TypeOK, Log!Chunks
<1>2. CASE Log!Deliver
  <2> DEFINE r == logLookedUp.read
             n == logLookedUp.line
  <2>1. r \in Reads /\ n \in 1..MaxLines
    BY <1>2, LogBounds DEF LogTyped, Log!TypeOK, Log!Deliver, Log!Chunks
  <2>2. logBuffer[r] \in Seq(1..MaxLines) /\ Len(logBuffer[r]) <= ChanCap
    BY <2>1 DEF LogTyped, Log!TypeOK
  <2>3. logBuffer' = IF Len(logBuffer[r]) < ChanCap
                     THEN [logBuffer EXCEPT ![r] = Append(@, n)] ELSE logBuffer
    BY <1>2 DEF Log!Deliver
  <2>4. Append(logBuffer[r], n) \in Seq(1..MaxLines)
        /\ Len(Append(logBuffer[r], n)) = Len(logBuffer[r]) + 1 /\ Len(logBuffer[r]) \in Nat
    BY <2>1, <2>2, LogAppended
  <2> HIDE DEF r, n
  <2>5. /\ logBuffer' \in [Reads -> Seq(1..MaxLines)]
        /\ \A q \in Reads : Len(logBuffer'[q]) <= ChanCap
    <3>1. /\ logBuffer \in [Reads -> Seq(1..MaxLines)]
          /\ \A q \in Reads : Len(logBuffer[q]) <= ChanCap
      BY DEF LogTyped, Log!TypeOK
    <3>2. CASE Len(logBuffer[r]) < ChanCap
      <4>1. logBuffer' = [logBuffer EXCEPT ![r] = Append(logBuffer[r], n)]
        BY <2>3, <3>2
      <4>2. Len(Append(logBuffer[r], n)) <= ChanCap
        BY <2>4, <3>2, LogBounds
      <4>3. \A q \in Reads : logBuffer'[q] = IF q = r THEN Append(logBuffer[r], n) ELSE logBuffer[q]
        BY <3>1, <4>1
      <4> QED
        BY <2>1, <2>4, <3>1, <4>1, <4>2, <4>3
    <3>3. CASE ~(Len(logBuffer[r]) < ChanCap)
      BY <2>3, <3>1, <3>3
    <3> QED
      BY <3>2, <3>3
  <2>6. logLookedUp' = None
    BY <1>2 DEF Log!Deliver
  <2>7. UNCHANGED <<logReader, logChan, logGot, logFollower, logLine, logConnected, logDown, logUp>>
    BY <1>2 DEF Log!Deliver, Log!hostVars
  <2> QED
    BY <1>t, <2>5, <2>6, <2>7 DEF LogTyped, Log!TypeOK, Log!Chunks
<1>3. ASSUME NEW r \in Reads, Log!Read(r) PROVE LogTyped'
  <2> DEFINE b == logBuffer[r]
             g == logGot[r]
  <2>1. b \in Seq(1..MaxLines) /\ g \in Seq(1..MaxLines) /\ b # <<>> /\ Len(b) <= ChanCap
    BY <1>3 DEF LogTyped, Log!TypeOK, Log!Read
  <2>2. /\ logBuffer' = [logBuffer EXCEPT ![r] = Tail(b)]
        /\ logGot' = [logGot EXCEPT ![r] = Append(g, Head(b))]
    BY <1>3 DEF Log!Read, LogTyped, Log!TypeOK
  <2> HIDE DEF b, g
  <2>3. /\ Tail(b) \in Seq(1..MaxLines) /\ Head(b) \in 1..MaxLines
        /\ Len(b) = Len(Tail(b)) + 1 /\ Len(Tail(b)) \in Nat
    BY <2>1, LogTaken
  <2>4. Append(g, Head(b)) \in Seq(1..MaxLines)
    BY <2>1, <2>3, LogAppended
  <2>5. Len(Tail(b)) <= ChanCap
    BY <2>1, <2>3, LogBounds
  <2>6. /\ logBuffer' \in [Reads -> Seq(1..MaxLines)] /\ logGot' \in [Reads -> Seq(1..MaxLines)]
        /\ \A q \in Reads : Len(logBuffer'[q]) <= ChanCap
    BY <1>t, <2>2, <2>3, <2>4, <2>5 DEF LogTyped, Log!TypeOK
  <2>7. UNCHANGED <<logReader, logChan, logLookedUp, logFollower, logLine, logConnected, logDown, logUp>>
    BY <1>3 DEF Log!Read, Log!hostVars
  <2> QED
    BY <1>t, <2>6, <2>7 DEF LogTyped, Log!TypeOK, Log!Chunks
<1>4. ASSUME NEW r \in Reads, Log!Emit(r) \/ Log!Ends(r) PROVE LogTyped'
  <2>1. PICK n \in 0..MaxLines : logUp' = Append(logUp, [read |-> r, line |-> n])
    <3>1. logLine[r] \in 0..MaxLines
      BY DEF LogTyped, Log!TypeOK
    <3> QED
      BY <1>4, <3>1, LogBounds DEF Log!Emit, Log!Ends, Log!Chunk
  <2> DEFINE c == [read |-> r, line |-> n]
  <2>2. c \in Log!Chunks
    BY <2>1 DEF Log!Chunks
  <2> HIDE DEF c
  <2>3. logUp' \in Seq(Log!Chunks)
    BY <2>1, <2>2, LogAppended DEF LogTyped, Log!TypeOK, c
  <2>4. /\ logLine' \in [Reads -> 0..MaxLines]
        /\ logFollower' \in [Reads -> {"none", "running", "stopping", "stuck", "over"}]
    <3>1. CASE Log!Emit(r)
      <4>1. /\ logLine[r] \in 0..MaxLines /\ logLine[r] < MaxLines /\ logFollower' = logFollower
            /\ logLine' = [logLine EXCEPT ![r] = @ + 1]
        BY <3>1, <1>t DEF Log!Emit, Log!TypeOK
      <4>2. logLine[r] + 1 \in 0..MaxLines
        BY <4>1, LogBounds
      <4> QED
        BY <1>t, <4>1, <4>2 DEF Log!TypeOK
    <3>2. CASE Log!Ends(r)
      BY <3>2, <1>t DEF Log!Ends, Log!TypeOK
    <3> QED
      BY <1>4, <3>1, <3>2
  <2>5. UNCHANGED <<logReader, logChan, logBuffer, logGot, logLookedUp, logConnected, logDown>>
    BY <1>4 DEF Log!Emit, Log!Ends, Log!hubVars
  <2> QED
    BY <1>t, <2>3, <2>4, <2>5 DEF LogTyped, Log!TypeOK, Log!Chunks
<1> QED
  BY <1>1, <1>2, <1>3, <1>4

\* Requests, stops, and what the host makes of them.
LEMMA LogTypedAsk ==
    ASSUME LogTyped,
           \/ Log!OnLogRequest \/ Log!Reconnect
           \/ \E r \in Reads : Log!Open(r) \/ Log!Leave(r) \/ Log!CloseLog(r) \/ Log!TooLong(r)
    PROVE  LogTyped'
<1> DEFINE Down == [read : Reads, stop : BOOLEAN]
<1>t. LogTyped /\ Log!TypeOK /\ logDown \in Seq(Down)
  BY DEF LogTyped, Log!TypeOK
<1>1. CASE Log!OnLogRequest
  <2>1. logDown' \in Seq(Down)
    <3>1. logDown # <<>> /\ logDown' = Tail(logDown)
      BY <1>1 DEF Log!OnLogRequest
    <3> QED
      BY <1>t, <3>1, LogTaken
  <2>2. logFollower' \in [Reads -> {"none", "running", "stopping", "stuck", "over"}]
    <3> DEFINE q == Head(logDown).read
    <3>1. q \in Reads
      <4>1. logDown # <<>>
        BY <1>1 DEF Log!OnLogRequest
      <4>2. Head(logDown) \in Down
        BY <1>t, <4>1, LogTaken
      <4> QED
        BY <4>2
    <3>2. \E f \in {"none", "running", "stopping", "stuck", "over"} : logFollower' = [logFollower EXCEPT ![q] = f]
      <4>1. logFollower[q] \in {"none", "running", "stopping", "stuck", "over"}
        BY <1>t, <3>1 DEF Log!TypeOK
      <4>2. Log!StopLog(q) \/ logFollower' \in {[logFollower EXCEPT ![q] = f] : f \in {"running", "over"}}
        BY <1>1 DEF Log!OnLogRequest
      <4> HIDE DEF q
      <4> QED
        BY <4>1, <4>2 DEF Log!StopLog
    <3> HIDE DEF q
    <3> QED
      BY <1>t, <3>1, <3>2 DEF Log!TypeOK
  <2>3. UNCHANGED <<logReader, logChan, logBuffer, logGot, logLookedUp, logLine, logConnected, logUp>>
    BY <1>1 DEF Log!OnLogRequest, Log!hubVars
  <2> QED
    BY <1>t, <2>1, <2>2, <2>3 DEF LogTyped, Log!TypeOK, Log!Chunks
<1>2. CASE Log!Reconnect
  BY <1>2 DEF Log!Reconnect, Log!hubVars, Log!hostVars, LogTyped, Log!TypeOK, Log!Chunks
<1>3. ASSUME NEW r \in Reads, Log!Open(r) \/ Log!Leave(r) \/ Log!CloseLog(r) \/ Log!TooLong(r)
      PROVE  LogTyped'
  <2>1. logDown' \in Seq(Down)
    <3>1. ASSUME NEW stop \in BOOLEAN, Log!Asked(r, stop) PROVE logDown' \in Seq(Down)
      <4>1. [read |-> r, stop |-> stop] \in Down
        OBVIOUS
      <4> QED
        BY <1>t, <3>1, <4>1, LogAppended DEF Log!Asked
    <3>2. Log!Asked(r, FALSE) \/ Log!Asked(r, TRUE) \/ UNCHANGED logDown
      BY <1>3 DEF Log!Open, Log!Leave, Log!CloseLog, Log!TooLong
    <3> HIDE DEF Down
    <3> QED
      BY <1>t, <3>1, <3>2
  <2>2. /\ logReader' \in [Reads -> {"new", "reading", "leaving", "over"}]
        /\ logChan' \in [Reads -> {"none", "open", "closed"}]
        /\ logFollower' \in [Reads -> {"none", "running", "stopping", "stuck", "over"}]
    BY <1>3, <1>t DEF Log!Open, Log!Leave, Log!CloseLog, Log!TooLong, Log!hostVars, Log!hubVars, Log!TypeOK
  <2>3. UNCHANGED <<logBuffer, logGot, logLookedUp, logLine, logConnected, logUp>>
    BY <1>3 DEF Log!Open, Log!Leave, Log!CloseLog, Log!TooLong, Log!hostVars, Log!hubVars, Log!Asked
  <2> QED
    BY <1>t, <2>1, <2>2, <2>3 DEF LogTyped, Log!TypeOK, Log!Chunks
<1> QED
  BY <1>1, <1>2, <1>3

LEMMA LogTypedStep == ASSUME LogTyped, Log!Next \/ UNCHANGED logVars PROVE LogTyped'
<1>1. CASE UNCHANGED logVars
  BY <1>1 DEF logVars, LogTyped, Log!TypeOK, Log!Chunks
<1>2. CASE Log!Next
  BY <1>2, LogTypedBroken, LogTypedLine, LogTypedAsk DEF Log!Next
<1> QED
  BY <1>1, <1>2

-----------------------------------------------------------------------------
(* The accounts. *)

\* A login holds the hash it compared with; a change of the password also the new one
\* and the session that asked for it.
AccountsRequestType ==
    {Acc!NoRequest} \cup [pc : {"login"}, old : Acc!Hashes, session : {0}]
        \cup [pc : {"swap", "drop"}, old : Acc!Hashes, new : Acc!Hashes, session : Nat]

AccountsCountsOK ==
    /\ accCreated \in Nat /\ accHashes \in 0..MaxHashes
    /\ accSessions \subseteq 1..accCreated /\ accLate \subseteq 1..accCreated
    /\ accRequest \in [Requests -> AccountsRequestType]
    /\ accPrompt \in {Acc!NoRequest} \cup [hash : Acc!Hashes, tokens : SUBSET Tokens]
    /\ \A r \in Requests : accRequest[r].pc \in {"swap", "drop"} => accRequest[r].session \in 1..accCreated

\* Somebody is about to end the sessions of the passwords before the present one: the
\* request that made it, whose own session it has carried over.
AccountsSweeper(r) == accRequest[r].pc = "drop" /\ accBornUnder[accRequest[r].session] = accHash

\* A session that does not go back to the present password awaits such a request.
AccountsStaleAwaitsSweeper ==
    \A s \in accSessions : accBornUnder[s] = accHash \/ s \in accLate \/ \E r \in Requests : AccountsSweeper(r)

AccountsPersisted == accHash = accDisk.hash \/ accSetpass

AccountsInv == Acc!TypeOK /\ AccountsCountsOK /\ AccountsStaleAwaitsSweeper /\ AccountsPersisted

LEMMA AccountsRequestFields ==
    ASSUME AccountsCountsOK, NEW r \in Requests
    PROVE  /\ accRequest[r].pc = "login" => accRequest[r].old \in Acc!Hashes
           /\ accRequest[r].pc \in {"swap", "drop"} =>
                /\ accRequest[r].old \in Acc!Hashes /\ accRequest[r].new \in Acc!Hashes
                /\ accRequest[r].session \in 1..accCreated
                /\ [accRequest[r] EXCEPT !.pc = "drop"] \in AccountsRequestType
           /\ accRequest[r].pc \in {"none", "login", "swap", "drop"}
  BY DEF AccountsCountsOK, AccountsRequestType, Acc!NoRequest

LEMMA AccountsHashFields ==
    ASSUME Acc!BoundsAssumption
    PROVE  /\ Acc!NoHash \in Acc!Hashes
           /\ \A pw \in Passwords, n \in 0..MaxHashes : [pw |-> pw, n |-> n] \in Acc!Hashes
  BY DEF Acc!Hashes, Acc!NoHash, Acc!BoundsAssumption

LEMMA AccountsInit == Acc!BoundsAssumption /\ Acc!Init => AccountsInv
<1> SUFFICES ASSUME Acc!BoundsAssumption, Acc!Init PROVE AccountsInv
  OBVIOUS
<1>1. Acc!NoHash \in Acc!Hashes
  BY AccountsHashFields
<1>2. Acc!TypeOK
  BY <1>1 DEF Acc!Init, Acc!TypeOK, Acc!Stored, Acc!NoRequest, Acc!BoundsAssumption
<1>3. AccountsCountsOK
  BY DEF Acc!Init, AccountsCountsOK, AccountsRequestType, Acc!NoRequest, Acc!BoundsAssumption
<1>4. AccountsStaleAwaitsSweeper /\ AccountsPersisted
  BY DEF Acc!Init, AccountsStaleAwaitsSweeper, AccountsPersisted, Acc!Stored
<1> QED
  BY <1>2, <1>3, <1>4 DEF AccountsInv

LEMMA AccountsNext ==
    ASSUME Acc!BoundsAssumption, AccountsInv, [Acc!Next]_accVars
    PROVE  AccountsInv'
<1> USE DEF AccountsInv
<1>1. CASE Acc!LoadSetPass
  BY <1>1 DEF Acc!LoadSetPass, Acc!storeVars, Acc!TypeOK, AccountsCountsOK, AccountsStaleAwaitsSweeper, AccountsSweeper, AccountsPersisted
<1>2. ASSUME NEW pw \in Passwords, Acc!SetPass(pw) PROVE AccountsInv'
  <2>1. /\ accPrompt \in [hash : Acc!Hashes, tokens : SUBSET Tokens]
        /\ accHashes' \in 0..MaxHashes /\ [pw |-> pw, n |-> accHashes + 1] \in Acc!Hashes
    BY <1>2, AccountsHashFields DEF Acc!SetPass, AccountsCountsOK, Acc!BoundsAssumption
  <2>2. accDisk' \in [hash : Acc!Hashes, tokens : SUBSET Tokens]
    BY <1>2, <2>1 DEF Acc!SetPass
  <2>3. Acc!TypeOK'
    BY <1>2, <2>2 DEF Acc!SetPass, Acc!TypeOK
  <2>4. AccountsCountsOK'
    BY <1>2, <2>1 DEF Acc!SetPass, AccountsCountsOK
  <2>5. AccountsStaleAwaitsSweeper' /\ AccountsPersisted'
    BY <1>2 DEF Acc!SetPass, AccountsStaleAwaitsSweeper, AccountsSweeper, AccountsPersisted
  <2> QED
    BY <2>3, <2>4, <2>5
<1>3. ASSUME NEW r \in Requests, NEW pw \in Passwords, Acc!CheckLogin(r, pw) PROVE AccountsInv'
  <2> DEFINE rec == [pc |-> "login", old |-> accHash, session |-> 0]
  <2>1. /\ rec \in AccountsRequestType /\ rec.pc = "login" /\ accRequest[r] = Acc!NoRequest
        /\ accRequest' = [accRequest EXCEPT ![r] = rec]
        /\ UNCHANGED <<accHash, accTokens, accDisk, accSessions, accCreated, accHashes, accBornUnder, accLate, accSetpass, accPrompt>>
    BY <1>3 DEF Acc!CheckLogin, AccountsRequestType, Acc!TypeOK, Acc!storeVars
  <2> HIDE DEF rec
  <2>2. \A q \in Requests : accRequest'[q] = IF q = r THEN rec ELSE accRequest[q]
    BY <2>1 DEF AccountsCountsOK
  <2>3. Acc!TypeOK' /\ AccountsCountsOK' /\ AccountsPersisted'
    BY <2>1, <2>2 DEF Acc!TypeOK, AccountsCountsOK, AccountsPersisted
  <2>4. AccountsStaleAwaitsSweeper'
    BY <2>1, <2>2 DEF AccountsStaleAwaitsSweeper, AccountsSweeper, Acc!NoRequest
  <2> QED
    BY <2>3, <2>4
<1>4. ASSUME NEW r \in Requests, Acc!CreateSession(r) PROVE AccountsInv'
  <2> DEFINE s == accCreated + 1
  <2>0. accCreated \in Nat /\ accCreated < MaxSessions /\ accSessions \subseteq 1..accCreated
        /\ accRequest[r].pc = "login" /\ accRequest[r].old \in Acc!Hashes
    BY <1>4, AccountsRequestFields DEF Acc!CreateSession, AccountsCountsOK
  <2>1. /\ accRequest[r].pc = "login" /\ accRequest[r].old \in Acc!Hashes
        /\ s \in 1..MaxSessions /\ accCreated' = s /\ accCreated \in Nat
        /\ accSessions' = accSessions \cup {s} /\ accSessions \subseteq 1..accCreated
        /\ accBornUnder' = [accBornUnder EXCEPT ![s] = accRequest[r].old]
        /\ accLate' = IF accRequest[r].old # accHash THEN accLate \cup {s} ELSE accLate
        /\ accRequest' = [accRequest EXCEPT ![r] = Acc!NoRequest]
        /\ UNCHANGED <<accHash, accTokens, accDisk, accHashes, accSetpass, accPrompt>>
    BY <1>4, <2>0 DEF Acc!CreateSession, Acc!Done, Acc!storeVars, Acc!BoundsAssumption
  <2> HIDE DEF s
  <2>2. /\ \A q \in Requests : accRequest'[q] = IF q = r THEN Acc!NoRequest ELSE accRequest[q]
        /\ \A i \in 1..MaxSessions : accBornUnder'[i] = IF i = s THEN accRequest[r].old ELSE accBornUnder[i]
        /\ s \notin 1..accCreated /\ 1..accCreated \subseteq 1..s /\ 1..accCreated \subseteq 1..MaxSessions
        /\ s \in 1..s
    BY <2>1 DEF AccountsCountsOK, Acc!TypeOK, Acc!BoundsAssumption, s
  <2>3. Acc!TypeOK'
    BY <2>1, <2>2 DEF Acc!TypeOK, Acc!NoRequest
  <2>4. AccountsCountsOK'
    BY <2>1, <2>2 DEF AccountsCountsOK, AccountsRequestType, Acc!NoRequest
  <2>5. ASSUME NEW q \in Requests, AccountsSweeper(q) PROVE AccountsSweeper(q)'
    <3>1. accRequest[q].session \in 1..accCreated /\ q # r
      BY <2>1, <2>5, AccountsRequestFields DEF AccountsSweeper
    <3> QED
      BY <2>1, <2>2, <2>5, <3>1 DEF AccountsSweeper
  <2>6. AccountsStaleAwaitsSweeper'
    BY <2>1, <2>2, <2>5 DEF AccountsStaleAwaitsSweeper
  <2>7. AccountsPersisted'
    BY <2>1 DEF AccountsPersisted
  <2> QED
    BY <2>3, <2>4, <2>6, <2>7
<1>5. ASSUME NEW s \in accSessions, Acc!EndSession(s) PROVE AccountsInv'
  BY <1>5 DEF Acc!EndSession, Acc!storeVars, Acc!TypeOK, AccountsCountsOK, AccountsStaleAwaitsSweeper, AccountsSweeper, AccountsPersisted
<1>6. ASSUME NEW r \in Requests, NEW s \in accSessions, NEW cur \in Passwords, NEW new \in Passwords,
             Acc!BeginChange(r, s, cur, new)
      PROVE  AccountsInv'
  <2> DEFINE rec == [pc |-> "swap", old |-> accHash, new |-> [pw |-> new, n |-> accHashes + 1],
                     session |-> s]
  <2>1. s \in 1..accCreated /\ s \in Nat
    BY DEF AccountsCountsOK
  <2>2. accHashes' \in 0..MaxHashes /\ [pw |-> new, n |-> accHashes + 1] \in Acc!Hashes
    BY <1>6, AccountsHashFields DEF Acc!BeginChange, AccountsCountsOK, Acc!BoundsAssumption
  <2>3. /\ rec \in AccountsRequestType /\ rec.pc = "swap" /\ rec.session \in 1..accCreated
        /\ accRequest[r] = Acc!NoRequest /\ accRequest' = [accRequest EXCEPT ![r] = rec]
        /\ UNCHANGED <<accHash, accTokens, accDisk, accSessions, accCreated, accBornUnder, accLate, accSetpass, accPrompt>>
    BY <1>6, <2>1, <2>2 DEF Acc!BeginChange, AccountsRequestType, Acc!TypeOK, Acc!storeVars
  <2> HIDE DEF rec
  <2>4. \A q \in Requests : accRequest'[q] = IF q = r THEN rec ELSE accRequest[q]
    BY <2>3 DEF AccountsCountsOK
  <2>5. Acc!TypeOK' /\ AccountsCountsOK' /\ AccountsPersisted'
    BY <2>2, <2>3, <2>4 DEF Acc!TypeOK, AccountsCountsOK, AccountsPersisted
  <2>6. AccountsStaleAwaitsSweeper'
    BY <2>3, <2>4 DEF AccountsStaleAwaitsSweeper, AccountsSweeper, Acc!NoRequest
  <2> QED
    BY <2>5, <2>6
<1>7. ASSUME NEW r \in Requests, Acc!Swap(r) PROVE AccountsInv'
  <2> DEFINE rec == [accRequest[r] EXCEPT !.pc = "drop"]
             s == accRequest[r].session
  <2>1. /\ accRequest[r].pc = "swap" /\ accRequest[r].new \in Acc!Hashes /\ s \in 1..accCreated
        /\ rec \in AccountsRequestType /\ rec.pc = "drop" /\ rec.session = s
        /\ accHash' = accRequest[r].new /\ accDisk' = [hash |-> accRequest[r].new, tokens |-> accTokens]
        /\ accBornUnder' = [accBornUnder EXCEPT ![s] = accRequest[r].new]
        /\ accRequest' = [accRequest EXCEPT ![r] = rec]
        /\ UNCHANGED <<accTokens, accSessions, accCreated, accHashes, accLate, accSetpass, accPrompt>>
    BY <1>7, AccountsRequestFields DEF Acc!Swap, Acc!Save, AccountsRequestType, Acc!NoRequest, AccountsCountsOK
  <2> HIDE DEF rec, s
  <2>2. /\ \A q \in Requests : accRequest'[q] = IF q = r THEN rec ELSE accRequest[q]
        /\ s \in 1..MaxSessions /\ accBornUnder'[s] = accRequest[r].new
    BY <2>1 DEF AccountsCountsOK, Acc!TypeOK, Acc!BoundsAssumption
  <2>3. Acc!TypeOK' /\ AccountsCountsOK' /\ AccountsPersisted'
    BY <2>1, <2>2 DEF Acc!TypeOK, AccountsCountsOK, AccountsPersisted
  <2>4. AccountsSweeper(r)'
    BY <2>1, <2>2 DEF AccountsSweeper
  <2> QED
    BY <2>3, <2>4 DEF AccountsStaleAwaitsSweeper
<1>8. ASSUME NEW r \in Requests, Acc!RefuseSwap(r) PROVE AccountsInv'
  <2>1. /\ accRequest[r].pc = "swap" /\ accRequest' = [accRequest EXCEPT ![r] = Acc!NoRequest]
        /\ UNCHANGED <<accHash, accTokens, accDisk, accSessions, accCreated, accHashes, accBornUnder, accLate, accSetpass, accPrompt>>
    BY <1>8 DEF Acc!RefuseSwap, Acc!Done, Acc!storeVars
  <2>2. \A q \in Requests : accRequest'[q] = IF q = r THEN Acc!NoRequest ELSE accRequest[q]
    BY <2>1 DEF AccountsCountsOK
  <2>3. Acc!TypeOK' /\ AccountsCountsOK' /\ AccountsPersisted'
    BY <2>1, <2>2 DEF Acc!TypeOK, AccountsCountsOK, AccountsPersisted, AccountsRequestType, Acc!NoRequest
  <2>4. AccountsStaleAwaitsSweeper'
    BY <2>1, <2>2 DEF AccountsStaleAwaitsSweeper, AccountsSweeper
  <2> QED
    BY <2>3, <2>4
<1>9. ASSUME NEW r \in Requests, Acc!DropOthers(r) PROVE AccountsInv'
  <2>1. /\ accRequest[r].pc = "drop" /\ accRequest' = [accRequest EXCEPT ![r] = Acc!NoRequest]
        /\ accSessions' = accSessions \cap {accRequest[r].session}
        /\ UNCHANGED <<accHash, accTokens, accDisk, accCreated, accHashes, accBornUnder, accLate, accSetpass, accPrompt>>
    BY <1>9 DEF Acc!DropOthers, Acc!Done, Acc!storeVars
  <2>2. \A q \in Requests : accRequest'[q] = IF q = r THEN Acc!NoRequest ELSE accRequest[q]
    BY <2>1 DEF AccountsCountsOK
  <2>3. Acc!TypeOK' /\ AccountsCountsOK' /\ AccountsPersisted'
    BY <2>1, <2>2 DEF Acc!TypeOK, AccountsCountsOK, AccountsPersisted, AccountsRequestType, Acc!NoRequest
  <2>4. AccountsStaleAwaitsSweeper'
    <3>1. ASSUME NEW q \in Requests, AccountsSweeper(q), q # r PROVE AccountsSweeper(q)'
      BY <2>1, <2>2, <3>1 DEF AccountsSweeper
    <3>2. ASSUME AccountsSweeper(r) PROVE \A s \in accSessions' : accBornUnder'[s] = accHash'
      BY <2>1, <3>2 DEF AccountsSweeper
    <3> QED
      BY <2>1, <3>1, <3>2 DEF AccountsStaleAwaitsSweeper
  <2> QED
    BY <2>3, <2>4
<1>10. ASSUME NEW new \in SUBSET Tokens, Acc!ChangeTokens(new) PROVE AccountsInv'
  <2>1. accDisk' \in {accDisk, [hash |-> accHash, tokens |-> new]} /\ accTokens' = new
        /\ UNCHANGED <<accHash, accSessions, accCreated, accRequest, accHashes, accBornUnder, accLate, accSetpass, accPrompt>>
    BY <1>10 DEF Acc!ChangeTokens, Acc!Save
  <2>2. accDisk' \in [hash : Acc!Hashes, tokens : SUBSET Tokens] /\ (accDisk'.hash = accDisk.hash \/ accDisk'.hash = accHash)
    BY <2>1 DEF Acc!TypeOK
  <2> QED
    BY <2>1, <2>2 DEF Acc!TypeOK, AccountsCountsOK, AccountsStaleAwaitsSweeper, AccountsSweeper, AccountsPersisted
<1>11. CASE Acc!Restart
  <2>1. /\ accHash' = accDisk.hash /\ accTokens' = accDisk.tokens /\ accSessions' = {}
        /\ accRequest' = [r \in Requests |-> Acc!NoRequest]
        /\ UNCHANGED <<accDisk, accCreated, accHashes, accBornUnder, accLate, accPrompt>>
    BY <1>11 DEF Acc!Restart
  <2>2. Acc!TypeOK' /\ AccountsCountsOK'
    BY <2>1 DEF Acc!TypeOK, AccountsCountsOK, AccountsRequestType, Acc!NoRequest
  <2>3. AccountsStaleAwaitsSweeper' /\ AccountsPersisted'
    BY <2>1 DEF AccountsStaleAwaitsSweeper, AccountsPersisted
  <2> QED
    BY <2>2, <2>3
<1>12. CASE UNCHANGED accVars
  BY <1>12 DEF accVars, Acc!storeVars, Acc!TypeOK, AccountsCountsOK, AccountsStaleAwaitsSweeper, AccountsSweeper, AccountsPersisted
<1>13. ASSUME NEW t \in Tokens, Acc!AddToken(t) \/ Acc!RevokeToken(t) PROVE AccountsInv'
  <2>1. accTokens \cup {t} \in SUBSET Tokens /\ accTokens \ {t} \in SUBSET Tokens
    BY DEF Acc!TypeOK
  <2> QED
    BY <1>10, <1>13, <2>1 DEF Acc!AddToken, Acc!RevokeToken
<1> QED
  BY <1>1, <1>2, <1>3, <1>4, <1>5, <1>6, <1>7, <1>8, <1>9, <1>11, <1>12, <1>13 DEF Acc!Next

LEMMA AccountsInvSignedOut == AccountsInv => Acc!TypeOK /\ Acc!SignedOut
  BY DEF AccountsInv, AccountsStaleAwaitsSweeper, AccountsSweeper, AccountsPersisted, Acc!SignedOut

\* A new password leaves no session of an old one, and is on disk unless setpass has run.
THEOREM AccountsPart == Spec => []SignedOut
<1> DEFINE Inv == part = "accounts" => AccountsInv
<1>1. Init => Inv
  BY AccountsInit, PartsAssumption DEF Init
<1>2. Inv /\ [Next]_vars => Inv'
  BY PartStep, AccountsNext, PartsAssumption
<1>3. Inv => SignedOut
  BY AccountsInvSignedOut DEF SignedOut
<1> QED
  BY <1>1, <1>2, <1>3, PTL DEF Spec

-----------------------------------------------------------------------------
(* The image updates. *)

\* No verdict, read or merged, is ahead of the registry or of the host, and one whose image
\* the host still runs has seen the registry no earlier than it was pulled.
ImageReads(i, v) ==
    Img!Known(v) =>
        /\ v.cur <= imgLocal[i] /\ v.latest <= imgRemote[i]
        /\ v.cur = imgLocal[i] => v.cur <= v.latest

ImageReadsHold ==
    /\ \A i \in Images : imgLocal[i] <= imgRemote[i]
    /\ \A i \in Images : imgUpdates[i] # None => ImageReads(i, imgUpdates[i])
    /\ \A k \in Checks : \A i \in Images :
         /\ imgCheck[k].found[i] # None => ImageReads(i, imgCheck[k].found[i])
         /\ imgCheck[k].at = i => imgCheck[k].cur <= imgLocal[i]

LEMMA ImageConstants ==
    MaxDigest \in Nat \ {0} /\ None \notin Images /\ None \notin [cur : Nat, latest : Nat]
  BY PartsAssumption DEF Img!ImagesAssumption

ImageInv == Img!TypeOK /\ ImageReadsHold /\ Img!FlagIsNews

LEMMA ImageInit == Img!Init => ImageInv
<1> SUFFICES ASSUME Img!Init PROVE ImageInv
  OBVIOUS
<1> USE ImageConstants
<1>1. Img!TypeOK
  <2>1. Img!NoCheck \in [todo : SUBSET Images, found : [Images -> Img!Verdicts \cup {None}],
                         at : Images \cup {None}, cur : 0..MaxDigest]
    BY DEF Img!NoCheck
  <2>2. imgCheck \in [Checks -> [todo : SUBSET Images, found : [Images -> Img!Verdicts \cup {None}],
                         at : Images \cup {None}, cur : 0..MaxDigest]]
    BY <2>1 DEF Img!Init
  <2>3. imgRemote \in [Images -> 1..MaxDigest] /\ imgLocal \in [Images -> 1..MaxDigest]
        /\ imgUpdates \in [Images -> Img!Verdicts \cup {None}]
    BY DEF Img!Init
  <2>4. imgUpdate \in Images \cup {None} /\ imgPulled \in BOOLEAN /\ imgLeft \subseteq Images
    BY DEF Img!Init
  <2> QED
    BY <2>2, <2>3, <2>4 DEF Img!TypeOK
<1>2. ImageReadsHold
  BY DEF Img!Init, ImageReadsHold, Img!NoCheck
<1>3. Img!FlagIsNews
  BY DEF Img!Init, Img!FlagIsNews, Img!Shown, Img!HasUpdate
<1> QED
  BY <1>1, <1>2, <1>3 DEF ImageInv


\* What a check has read stays true of a host and a registry that only move on.
LEMMA ImageLater ==
    ASSUME NEW i \in Images, NEW v \in Img!Verdicts, ImageReads(i, v),
           imgLocal \in [Images -> 1..MaxDigest], imgRemote \in [Images -> 1..MaxDigest],
           imgLocal' \in [Images -> 1..MaxDigest], imgRemote' \in [Images -> 1..MaxDigest],
           imgLocal[i] <= imgLocal'[i], imgRemote[i] <= imgRemote'[i]
    PROVE  Img!Known(v) =>
              /\ v.cur <= imgLocal'[i] /\ v.latest <= imgRemote'[i]
              /\ v.cur = imgLocal'[i] => v.cur <= v.latest
  BY ImageConstants DEF ImageReads, Img!Verdicts

LEMMA ImageTypes == Img!TypeOK /\ Img!Next => Img!TypeOK'
<1> SUFFICES ASSUME Img!TypeOK, Img!Next PROVE Img!TypeOK'
  OBVIOUS
<1> DEFINE Check == [todo : SUBSET Images, found : [Images -> Img!Verdicts \cup {None}],
                     at : Images \cup {None}, cur : 0..MaxDigest]
<1> USE ImageConstants
<1>0. Img!NoCheck \in Check
  BY DEF Img!NoCheck
<1>1. ASSUME NEW i \in Images, Img!Publish(i) PROVE Img!TypeOK'
  <2>1. /\ imgRemote' = [imgRemote EXCEPT ![i] = imgRemote[i] + 1] /\ imgRemote[i] < MaxDigest
        /\ UNCHANGED <<imgLocal, imgUpdates, imgCheck, imgUpdate, imgPulled, imgLeft>>
    BY <1>1 DEF Img!Publish
  <2>2. imgRemote \in [Images -> 1..MaxDigest] /\ imgRemote[i] \in 1..MaxDigest
    BY DEF Img!TypeOK
  <2>3. imgRemote' \in [Images -> 1..MaxDigest]
    BY <2>1, <2>2
  <2> QED
    BY <2>1, <2>3, Zenon DEF Img!TypeOK
<1>2. ASSUME NEW i \in Images, Img!BeginUpdate(i) PROVE Img!TypeOK'
  BY <1>2 DEF Img!BeginUpdate, Img!TypeOK
<1>3. ASSUME NEW k \in Checks, NEW scope \in SUBSET Images, Img!BeginCheck(k, scope) PROVE Img!TypeOK'
  <2>1. imgCheck \in [Checks -> Check] /\ imgCheck' = [imgCheck EXCEPT ![k].todo = scope]
    BY <1>3 DEF Img!BeginCheck, Img!TypeOK
  <2>2. [imgCheck[k] EXCEPT !.todo = scope] \in Check
    BY <2>1
  <2>3. imgCheck' \in [Checks -> Check]
    BY <2>1, <2>2
  <2> QED
    BY <1>3, <2>3 DEF Img!BeginCheck, Img!TypeOK
<1>4. ASSUME NEW k \in Checks, NEW i \in Images, Img!ReadLocal(k, i) PROVE Img!TypeOK'
  <2>1. imgLocal[i] \in 0..MaxDigest
    BY DEF Img!TypeOK
  <2>2. PICK cur \in {0, imgLocal[i]} : imgCheck' = [imgCheck EXCEPT ![k].at = i, ![k].cur = cur]
    BY <1>4 DEF Img!ReadLocal
  <2>3. cur \in 0..MaxDigest
    BY <2>1
  <2>4. imgCheck \in [Checks -> Check]
    BY DEF Img!TypeOK
  <2>5. [imgCheck[k] EXCEPT !.at = i, !.cur = cur] \in Check
    BY <2>3, <2>4
  <2>6. imgCheck' = [imgCheck EXCEPT ![k] = [imgCheck[k] EXCEPT !.at = i, !.cur = cur]]
    BY <2>2, <2>4
  <2>7. imgCheck' \in [Checks -> Check]
    BY <2>4, <2>5, <2>6
  <2> QED
    BY <1>4, <2>7 DEF Img!ReadLocal, Img!TypeOK
<1>5. ASSUME NEW k \in Checks, Img!ReadRemote(k) PROVE Img!TypeOK'
  <2> DEFINE i == imgCheck[k].at
  <2>1. i \in Images /\ imgCheck[k].cur \in 0..MaxDigest /\ imgCheck \in [Checks -> Check]
    BY <1>5 DEF Img!ReadRemote, Img!TypeOK
  <2>2. PICK latest \in {0, imgRemote[i]} :
          imgCheck' = [imgCheck EXCEPT ![k] =
            [todo |-> @.todo \ {i}, at |-> None, cur |-> 0,
             found |-> [@.found EXCEPT ![i] = [cur |-> imgCheck[k].cur, latest |-> latest]]]]
    BY <1>5 DEF Img!ReadRemote
  <2>3. latest \in 0..MaxDigest
    BY <2>1 DEF Img!TypeOK
  <2> DEFINE v == [cur |-> imgCheck[k].cur, latest |-> latest]
  <2>4. v \in Img!Verdicts
    BY <2>1, <2>3 DEF Img!Verdicts
  <2>5. [todo |-> imgCheck[k].todo \ {i}, at |-> None, cur |-> 0,
         found |-> [imgCheck[k].found EXCEPT ![i] = v]] \in Check
    <3> HIDE DEF v, i
    <3> QED
      BY <2>1, <2>4
  <2>6. imgCheck' \in [Checks -> Check]
    <3> HIDE DEF Check
    <3> QED
      BY <2>1, <2>2, <2>5
  <2> QED
    BY <1>5, <2>6 DEF Img!ReadRemote, Img!TypeOK
<1>6. ASSUME NEW k \in Checks, Img!EndCheck(k) PROVE Img!TypeOK'
  <2>1. imgCheck' \in [Checks -> Check]
    BY <1>6, <1>0 DEF Img!EndCheck, Img!TypeOK
  <2>2. imgUpdates' \in [Images -> Img!Verdicts \cup {None}]
    BY <1>6 DEF Img!EndCheck, Img!TypeOK, Img!Ingested
  <2> QED
    BY <1>6, <2>1, <2>2 DEF Img!EndCheck, Img!TypeOK
<1>7. ASSUME NEW k \in Checks, Img!FailCheck(k) PROVE Img!TypeOK'
  BY <1>7, <1>0 DEF Img!FailCheck, Img!TypeOK
<1>8. CASE Img!Pull
  BY <1>8 DEF Img!Pull, Img!TypeOK
<1>9. CASE Img!EndUpdate
  BY <1>9 DEF Img!EndUpdate, Img!TypeOK
<1>10. CASE Img!FailUpdate
  BY <1>10 DEF Img!FailUpdate, Img!LeaveBehind, Img!TypeOK
<1>11. CASE Img!RestartAssociate
  BY <1>11, <1>0 DEF Img!RestartAssociate, Img!LeaveBehind, Img!TypeOK
<1>12. ASSUME NEW i \in Images, Img!LatePull(i) PROVE Img!TypeOK'
  BY <1>12 DEF Img!LatePull, Img!TypeOK
<1> QED
  BY <1>1, <1>2, <1>3, <1>4, <1>5, <1>6, <1>7, <1>8, <1>9, <1>10, <1>11, <1>12 DEF Img!Next

LEMMA ImageForward ==
    ASSUME Img!TypeOK, ImageReadsHold, Img!Next
    PROVE  \A i \in Images : imgLocal[i] <= imgLocal'[i] /\ imgRemote[i] <= imgRemote'[i]
                             /\ imgLocal'[i] <= imgRemote'[i]
<1> USE ImageConstants
<1>1. ASSUME NEW i \in Images, Img!Publish(i) PROVE \A j \in Images :
        imgLocal[j] <= imgLocal'[j] /\ imgRemote[j] <= imgRemote'[j] /\ imgLocal'[j] <= imgRemote'[j]
  BY <1>1 DEF Img!Publish, Img!TypeOK, ImageReadsHold
<1>2. CASE Img!Pull
  BY <1>2 DEF Img!Pull, Img!TypeOK, ImageReadsHold
<1>3. CASE UNCHANGED <<imgLocal, imgRemote>>
  BY <1>3 DEF Img!TypeOK, ImageReadsHold
<1>4. ASSUME NEW i \in Images, Img!LatePull(i) PROVE \A j \in Images :
        imgLocal[j] <= imgLocal'[j] /\ imgRemote[j] <= imgRemote'[j] /\ imgLocal'[j] <= imgRemote'[j]
  BY <1>4 DEF Img!LatePull, Img!TypeOK, ImageReadsHold
<1>5. Img!Next => \/ \E i \in Images : Img!Publish(i) \/ Img!LatePull(i)
                  \/ Img!Pull
                  \/ UNCHANGED <<imgLocal, imgRemote>>
  BY DEF Img!Next, Img!BeginUpdate, Img!BeginCheck, Img!ReadLocal, Img!ReadRemote, Img!EndCheck,
         Img!FailCheck, Img!EndUpdate, Img!FailUpdate, Img!RestartAssociate
<1> QED
  BY <1>1, <1>2, <1>3, <1>4, <1>5

\* What a step does to a check.
LEMMA ImageCheckStep ==
    ASSUME Img!TypeOK, Img!Next, NEW k \in Checks
    PROVE  \/ imgCheck'[k] = Img!NoCheck
           \/ /\ imgCheck'[k].at = imgCheck[k].at /\ imgCheck'[k].cur = imgCheck[k].cur
              /\ imgCheck'[k].found = imgCheck[k].found
           \/ \E i \in Images : Img!ReadLocal(k, i)
           \/ Img!ReadRemote(k)
<1> DEFINE Same == /\ imgCheck'[k].at = imgCheck[k].at /\ imgCheck'[k].cur = imgCheck[k].cur
                   /\ imgCheck'[k].found = imgCheck[k].found
<1>1. ASSUME NEW c \in Checks, NEW scope \in SUBSET Images, Img!BeginCheck(c, scope) PROVE Same
  BY <1>1 DEF Img!BeginCheck, Img!TypeOK
<1>2. ASSUME NEW c \in Checks, NEW i \in Images, Img!ReadLocal(c, i), c # k PROVE Same
  BY <1>2 DEF Img!ReadLocal, Img!TypeOK
<1>3. ASSUME NEW c \in Checks, Img!ReadRemote(c), c # k PROVE Same
  BY <1>3 DEF Img!ReadRemote, Img!TypeOK
<1>4. ASSUME NEW c \in Checks, Img!EndCheck(c) \/ Img!FailCheck(c) PROVE Same \/ imgCheck'[k] = Img!NoCheck
  BY <1>4 DEF Img!EndCheck, Img!FailCheck, Img!TypeOK
<1>5. CASE Img!RestartAssociate
  BY <1>5 DEF Img!RestartAssociate
<1>6. CASE UNCHANGED imgCheck
  BY <1>6
<1> QED
  BY <1>1, <1>2, <1>3, <1>4, <1>5, <1>6 DEF Img!Next, Img!Publish, Img!BeginUpdate, Img!Pull,
     Img!LatePull, Img!EndUpdate, Img!FailUpdate

LEMMA ImageReadsKept == ASSUME ImageInv, Img!Next PROVE ImageReadsHold'
<1> USE ImageConstants
<1>0. Img!TypeOK /\ Img!TypeOK' /\ ImageReadsHold
  BY ImageTypes DEF ImageInv
<1>1. \A i \in Images : imgLocal[i] <= imgLocal'[i] /\ imgRemote[i] <= imgRemote'[i]
                        /\ imgLocal'[i] <= imgRemote'[i]
  BY <1>0, ImageForward
<1>2. ASSUME NEW i \in Images, NEW v \in Img!Verdicts, ImageReads(i, v)
      PROVE  Img!Known(v) =>
              /\ v.cur <= imgLocal'[i] /\ v.latest <= imgRemote'[i]
              /\ v.cur = imgLocal'[i] => v.cur <= v.latest
  BY <1>0, <1>1, <1>2, ImageLater DEF Img!TypeOK
\* No step gives the associate a verdict that no check has.
<1>3. ASSUME NEW i \in Images, imgUpdates'[i] # None, imgUpdates'[i] # imgUpdates[i]
      PROVE  \E k \in Checks : imgUpdates'[i] = imgCheck[k].found[i]
  <2>1. PICK k \in Checks : Img!EndCheck(k)
    BY <1>0, <1>3 DEF Img!Next, Img!Publish, Img!BeginUpdate, Img!BeginCheck, Img!ReadLocal,
       Img!ReadRemote, Img!FailCheck, Img!Pull, Img!LatePull, Img!FailUpdate, Img!EndUpdate,
       Img!RestartAssociate, Img!TypeOK
  <2> QED
    BY <2>1, <1>0, <1>3 DEF Img!EndCheck, Img!Ingested, Img!TypeOK
<1>4. ASSUME NEW i \in Images, imgUpdates'[i] # None PROVE ImageReads(i, imgUpdates[i])'
  <2>1. imgUpdates'[i] \in Img!Verdicts
    BY <1>0, <1>4 DEF Img!TypeOK
  <2>2. ImageReads(i, imgUpdates'[i])
    BY <1>0, <1>3, <1>4 DEF ImageReadsHold
  <2> QED
    BY <2>1, <2>2, <1>2 DEF ImageReads, Img!Known
\* Nor does a check have one that it has not read just now.
<1>5. ASSUME NEW k \in Checks, NEW i \in Images, imgCheck'[k].found[i] # None,
             imgCheck'[k].found[i] # imgCheck[k].found[i]
      PROVE  /\ imgCheck[k].at = i
             /\ \E latest \in {0, imgRemote[i]} :
                  imgCheck'[k].found[i] = [cur |-> imgCheck[k].cur, latest |-> latest]
  <2>1. Img!NoCheck.found[i] = None
    BY DEF Img!NoCheck
  <2>2. Img!ReadRemote(k)
    <3>1. ASSUME NEW j \in Images, Img!ReadLocal(k, j) PROVE imgCheck'[k].found = imgCheck[k].found
      BY <3>1, <1>0 DEF Img!ReadLocal, Img!TypeOK
    <3> QED
      BY <3>1, <1>0, <1>5, <2>1, ImageCheckStep
  <2> QED
    BY <2>2, <1>0, <1>5 DEF Img!ReadRemote, Img!TypeOK
<1>6. ASSUME NEW k \in Checks, NEW i \in Images, imgCheck'[k].found[i] # None
      PROVE  ImageReads(i, imgCheck[k].found[i])'
  <2>1. imgCheck'[k].found[i] \in Img!Verdicts
    BY <1>0, <1>6 DEF Img!TypeOK
  <2>2. CASE imgCheck'[k].found[i] = imgCheck[k].found[i]
    BY <2>1, <2>2, <1>0, <1>2, <1>6 DEF ImageReads, ImageReadsHold, Img!Known
  <2>3. CASE imgCheck'[k].found[i] # imgCheck[k].found[i]
    <3>1. PICK latest \in {0, imgRemote[i]} :
            imgCheck[k].at = i /\ imgCheck'[k].found[i] = [cur |-> imgCheck[k].cur, latest |-> latest]
      BY <1>5, <1>6, <2>3
    <3>2. ImageReads(i, imgCheck'[k].found[i])
      BY <3>1, <2>1, <1>0 DEF ImageReads, ImageReadsHold, Img!Known, Img!Verdicts, Img!TypeOK
    <3> QED
      BY <3>2, <2>1, <1>2 DEF ImageReads, Img!Known
  <2> QED
    BY <2>2, <2>3
<1>7. ASSUME NEW k \in Checks, NEW i \in Images, imgCheck'[k].at = i
      PROVE  imgCheck'[k].cur <= imgLocal'[i]
  <2>1. Img!NoCheck.at # i
    BY DEF Img!NoCheck
  <2>2. \/ imgCheck'[k].at = imgCheck[k].at /\ imgCheck'[k].cur = imgCheck[k].cur
        \/ imgCheck'[k].cur \in {0, imgLocal[i]}
    <3>1. CASE Img!ReadRemote(k)
      BY <3>1, <1>0, <1>7 DEF Img!ReadRemote, Img!TypeOK
    <3>2. ASSUME NEW j \in Images, Img!ReadLocal(k, j)
          PROVE  imgCheck'[k].at = j /\ imgCheck'[k].cur \in {0, imgLocal[j]}
      BY <3>2, <1>0 DEF Img!ReadLocal, Img!TypeOK
    <3> QED
      BY <3>1, <3>2, <2>1, <1>0, <1>7, ImageCheckStep
  <2> QED
    BY <2>2, <1>0, <1>1, <1>7 DEF Img!TypeOK, ImageReadsHold
<1> QED
  BY <1>1, <1>4, <1>6, <1>7 DEF ImageReadsHold
LEMMA ImageNews == ASSUME ImageInv, Img!Next PROVE Img!FlagIsNews'
<1> USE ImageConstants
<1>0. Img!TypeOK /\ Img!TypeOK' /\ ImageReadsHold /\ ImageReadsHold' /\ Img!FlagIsNews
  BY ImageTypes, ImageReadsKept DEF ImageInv
<1> SUFFICES ASSUME NEW i \in Images, Img!Shown(i)'
             PROVE  \/ imgUpdates'[i].cur = imgLocal'[i] /\ imgLocal'[i] < imgRemote'[i]
                    \/ i \in imgOvertaken'
                    \/ imgUpdate' = i /\ imgPulled'
  BY DEF Img!FlagIsNews
<1>1. /\ imgUpdates'[i] \in Img!Verdicts /\ Img!Known(imgUpdates'[i])
      /\ imgUpdates'[i].cur # imgUpdates'[i].latest /\ imgUpdates'[i] # None
  BY <1>0 DEF Img!Shown, Img!HasUpdate, Img!TypeOK
<1>2. imgUpdates'[i].latest <= imgRemote'[i] /\ imgUpdates'[i].cur <= imgLocal'[i]
  BY <1>0, <1>1 DEF ImageReadsHold, ImageReads
<1>3. CASE imgUpdates'[i].cur = imgLocal'[i]
  <2>1. imgUpdates'[i].cur <= imgUpdates'[i].latest
    BY <1>0, <1>1, <1>3 DEF ImageReadsHold, ImageReads, Img!Known
  <2>2. imgUpdates'[i].cur \in Nat /\ imgUpdates'[i].latest \in Nat /\ imgRemote'[i] \in Nat
    BY <1>0, <1>1 DEF Img!Verdicts, Img!TypeOK
  <2> QED
    BY <1>1, <1>2, <1>3, <2>1, <2>2
\* The verdict is on a digest that the host no longer runs.
<1>4. CASE imgUpdates'[i].cur # imgLocal'[i]
  <2>1. ASSUME NEW k \in Checks, Img!EndCheck(k), imgCheck[k].found[i] # None PROVE i \in imgOvertaken'
    BY <2>1, <1>0, <1>1, <1>4 DEF Img!EndCheck, Img!Ingested, Img!TypeOK
  <2>2. ASSUME NEW k \in Checks, Img!EndCheck(k), imgCheck[k].found[i] = None
        PROVE  /\ imgUpdates'[i] = imgUpdates[i] /\ imgLocal' = imgLocal
               /\ imgUpdate' = imgUpdate /\ imgPulled' = imgPulled
               /\ i \in imgOvertaken => i \in imgOvertaken'
    BY <2>2, <1>0 DEF Img!EndCheck, Img!TypeOK
  <2>3. CASE Img!Pull
    BY <2>3, <1>0, <1>1, <1>4 DEF Img!Pull, Img!FlagIsNews, Img!Shown, Img!HasUpdate, Img!TypeOK
  <2>4. CASE Img!EndUpdate
    BY <2>4, <1>0, <1>1, <1>4 DEF Img!EndUpdate, Img!FlagIsNews, Img!Shown, Img!HasUpdate, Img!TypeOK
  <2>5. CASE Img!FailUpdate
    BY <2>5, <1>0, <1>1, <1>4 DEF Img!FailUpdate, Img!FlagIsNews, Img!Shown, Img!HasUpdate, Img!TypeOK
  <2>6. ~Img!RestartAssociate
    BY <1>0, <1>1 DEF Img!RestartAssociate
  <2>7. CASE UNCHANGED <<imgLocal, imgUpdates, imgOvertaken>> /\ (imgUpdate = i => UNCHANGED <<imgUpdate, imgPulled>>)
    BY <2>7, <1>0, <1>1, <1>4 DEF Img!FlagIsNews, Img!Shown, Img!HasUpdate
  <2>8. CASE \E k \in Checks : Img!EndCheck(k)
    BY <2>8, <2>1, <2>2, <1>0, <1>1, <1>4 DEF Img!FlagIsNews, Img!Shown, Img!HasUpdate
  <2>9. ASSUME NEW j \in Images, Img!LatePull(j)
        PROVE  i \in imgOvertaken' \/ (imgUpdate' = i /\ imgPulled')
    BY <2>9, <1>0, <1>1, <1>4 DEF Img!LatePull, Img!FlagIsNews, Img!Shown, Img!HasUpdate, Img!TypeOK
  <2> QED
    BY <2>3, <2>4, <2>5, <2>6, <2>7, <2>8, <2>9 DEF Img!Next, Img!Publish, Img!BeginUpdate,
       Img!BeginCheck, Img!ReadLocal, Img!ReadRemote, Img!FailCheck
<1> QED
  BY <1>3, <1>4

LEMMA ImageStep == ASSUME ImageInv, Img!Next \/ UNCHANGED imgVars PROVE ImageInv'
<1>1. CASE Img!Next
  BY <1>1, ImageTypes, ImageReadsKept, ImageNews DEF ImageInv
<1>2. CASE UNCHANGED imgVars
  BY <1>2 DEF imgVars, ImageInv, Img!TypeOK, ImageReadsHold, ImageReads, Img!Known, Img!FlagIsNews,
     Img!Shown, Img!HasUpdate
<1> QED
  BY <1>1, <1>2

\* An update that is shown can be installed, but for what an update overtook.
THEOREM ImagesPart == Spec => []FlagIsNews
<1> DEFINE Inv == part = "images" => ImageInv
<1>1. Init => Inv
  BY ImageInit DEF Init
<1>2. Inv /\ [Next]_vars => Inv'
  BY PartStep, ImageStep
<1>3. Inv => FlagIsNews
  BY DEF FlagIsNews, ImageInv
<1> QED
  BY <1>1, <1>2, <1>3, PTL DEF Spec

-----------------------------------------------------------------------------
(* The files of a stack. *)

FileBases == [Editors -> [file : Files \cup {Unset}, sum : Sta!Kinds \cup {Unset}]]
FileTable == [1 .. MaxSaves -> Sta!Saves \cup {Sta!NoSave}]

\* A file is the one the save found until it is truncated, which waits for the copy of it;
\* what is left in the end is what SavesKeepEdits asks for.
FileStage(s) ==
    LET f   == staSave[s].file
        old == staSave[s].old
        pc  == staSave[s].pc
    IN  /\ pc \in {"validate", "create", "backup", "copy", "truncate"} => staFile[f] = old
        /\ pc \in {"truncate", "write", "check", "restore"} => old = Missing \/ staBak[f] = old
        /\ pc = "check" => staFile[f] = staSave[s].new
        /\ pc \in Sta!Results /\ old # Missing => old \in {staFile[f], staBak[f]}
        /\ pc = "refused" => staFile[f] = old
        /\ pc = "saved" => staFile[f] = staSave[s].new /\ (old # Missing => staBak[f] = old)

FileOrder(s) ==
    /\ staSave[s].pc = "create" => staSave[s].old = Missing
    /\ staSave[s].pc \in {"backup", "copy", "restore"} => staSave[s].old # Missing

\* Beside a save that is still the only one of its file, no other one is under way.
FileAlone(s) ==
    /\ ~staSave[s].mixed
    /\ \A t \in Sta!Begun : t # s /\ staSave[t].file = staSave[s].file => ~Sta!Live(t)

FileInv ==
    /\ Sta!TypeOK
    /\ \A s \in Sta!Begun :
        /\ staSave[s] \in Sta!Saves /\ FileOrder(s)
        /\ staSave[s].sole => FileAlone(s) /\ FileStage(s)

LEMMA FileBound == MaxSaves \in Nat
  BY PartsAssumption DEF Sta!FilesAssumption

LEMMA FileInit == Sta!Init => FileInv
<1> SUFFICES ASSUME Sta!Init PROVE FileInv
  OBVIOUS
<1>1. Sta!TypeOK
  BY FileBound DEF Sta!Init, Sta!TypeOK, Sta!Kinds
<1>2. Sta!Begun = {}
  BY DEF Sta!Init, Sta!Begun
<1> QED
  BY <1>1, <1>2 DEF FileInv

LEMMA FileInvKeeps == FileInv => Sta!TypeOK /\ Sta!SavesKeepEdits
<1> SUFFICES ASSUME FileInv, NEW s \in Sta!Begun, staSave[s].sole
             PROVE  LET f   == staSave[s].file
                        old == staSave[s].old
                    IN  /\ old # Missing => old \in {staFile[f], staBak[f]}
                        /\ Sta!At(s, "refused") => staFile[f] = old
                        /\ Sta!At(s, "saved") =>
                             staFile[f] = staSave[s].new /\ (old # Missing => staBak[f] = old)
  BY DEF FileInv, Sta!SavesKeepEdits
<1>1. staSave[s].pc \in Sta!Stages \cup Sta!Results /\ FileStage(s)
  BY DEF FileInv, Sta!Saves
<1> QED
  BY <1>1 DEF FileStage, Sta!Stages, Sta!At

\* What a step of a save does to it and to the others.
FileMoved(s, pc, mixed) ==
    /\ staSave' \in FileTable
    /\ staSave'[s] \in Sta!Saves /\ staSave'[s].pc = pc /\ staSave'[s].mixed = mixed
    /\ staSave'[s].file = staSave[s].file /\ staSave'[s].old = staSave[s].old
    /\ staSave'[s].new = staSave[s].new /\ staSave'[s].sole = staSave[s].sole
    /\ \A t \in Sta!Begun : t # s =>
         /\ staSave'[t] \in Sta!Saves /\ staSave'[t].pc = staSave[t].pc
         /\ staSave'[t].file = staSave[t].file /\ staSave'[t].old = staSave[t].old
         /\ staSave'[t].new = staSave[t].new /\ staSave'[t].sole = staSave[t].sole
         /\ staSave[t].file # staSave[s].file => staSave'[t].mixed = staSave[t].mixed

LEMMA FileAt ==
    ASSUME FileInv, NEW s \in Sta!Begun
    PROVE  /\ staSave[s] \in Sta!Saves /\ s \in 1 .. MaxSaves /\ s \in Nat /\ s # 0
           /\ staSave[s].file \in Files /\ staSave[s].editor \in Editors
           /\ staSave[s].old \in Sta!Kinds /\ staSave[s].new \in Sta!Kinds
           /\ staSave[s].mixed \in BOOLEAN /\ staSave[s].sole \in BOOLEAN
           /\ staFile[staSave[s].file] \in Sta!Kinds /\ staBak[staSave[s].file] \in Sta!Kinds
           /\ Torn \in Sta!Kinds /\ Missing \in Sta!Kinds
<1>1. staSave[s] \in Sta!Saves /\ s \in 1 .. MaxSaves
  BY FileBound DEF FileInv, Sta!TypeOK, Sta!Begun
<1>2. staSave[s].file \in Files
  BY <1>1 DEF Sta!Saves
<1>3. staFile[staSave[s].file] \in Sta!Kinds /\ staBak[staSave[s].file] \in Sta!Kinds
  BY <1>2 DEF FileInv, Sta!TypeOK
<1> QED
  BY <1>1, <1>2, <1>3 DEF Sta!Saves, Sta!Kinds

\* A save goes on, or ends.
LEMMA FilePc ==
    ASSUME FileInv, NEW s \in Sta!Begun, NEW pc \in Sta!Stages \cup Sta!Results,
           staSave' = [staSave EXCEPT ![s].pc = pc]
    PROVE  FileMoved(s, pc, staSave[s].mixed)
<1>1. staSave \in FileTable /\ \A t \in Sta!Begun : staSave[t] \in Sta!Saves /\ t \in 1 .. MaxSaves
  BY FileBound DEF FileInv, FileTable, Sta!TypeOK, Sta!Begun
<1> DEFINE r == [staSave[s] EXCEPT !.pc = pc]
<1>2. /\ r \in Sta!Saves /\ r.pc = pc /\ r.mixed = staSave[s].mixed
      /\ r.file = staSave[s].file /\ r.old = staSave[s].old
      /\ r.new = staSave[s].new /\ r.sole = staSave[s].sole
  BY <1>1 DEF Sta!Saves
<1>3. staSave' = [staSave EXCEPT ![s] = r]
  OBVIOUS
<1> HIDE DEF r
<1>4. staSave' \in FileTable /\ staSave'[s] = r /\ \A t \in Sta!Begun : t # s => staSave'[t] = staSave[t]
  BY <1>1, <1>2, <1>3 DEF FileTable
<1> QED
  BY <1>1, <1>2, <1>4 DEF FileMoved

\* A save truncates a copy: those that are about to fill the same copy are mixed up with it.
LEMMA FileFill ==
    ASSUME FileInv, NEW s \in Sta!Begun, NEW pc \in Sta!Stages, NEW stages \in SUBSET Sta!Stages,
           Sta!Fill(s, pc, stages)
    PROVE  \E mixed \in BOOLEAN :
              FileMoved(s, pc, mixed) /\ (staSave[s].sole => ~mixed)
<1>1. staSave \in FileTable /\ \A t \in Sta!Begun : staSave[t] \in Sta!Saves /\ t \in 1 .. MaxSaves
  BY FileBound DEF FileInv, FileTable, Sta!TypeOK, Sta!Begun
<1> DEFINE other(t) == t # s /\ staSave[t].file = staSave[s].file /\ staSave[t].pc \in stages
           mixed == \E u \in Sta!Begun : other(u)
           r == [staSave[s] EXCEPT !.pc = pc, !.mixed = mixed]
           x(t) == [staSave[t] EXCEPT !.mixed = TRUE]
           new(t) == IF t = s THEN r ELSE IF t \in Sta!Begun /\ other(t) THEN x(t) ELSE staSave[t]
<1>2. mixed \in BOOLEAN
  OBVIOUS
<1>3. staSave[s].sole => ~mixed
  BY DEF FileInv, FileAlone, Sta!Live
<1>4. staSave' = [t \in DOMAIN staSave |-> new(t)] /\ DOMAIN staSave = 1 .. MaxSaves
  BY <1>1 DEF Sta!Fill, FileTable
<1>5. /\ r \in Sta!Saves /\ r.pc = pc /\ r.mixed = mixed
      /\ r.file = staSave[s].file /\ r.old = staSave[s].old
      /\ r.new = staSave[s].new /\ r.sole = staSave[s].sole
  <2> HIDE DEF mixed
  <2> QED
    BY <1>1, <1>2 DEF Sta!Saves
<1>6. \A t \in Sta!Begun : /\ x(t) \in Sta!Saves /\ x(t).pc = staSave[t].pc
                           /\ x(t).file = staSave[t].file /\ x(t).old = staSave[t].old
                           /\ x(t).new = staSave[t].new /\ x(t).sole = staSave[t].sole
  BY <1>1 DEF Sta!Saves
<1> HIDE DEF mixed, r, x
<1>7. \A t \in 1 .. MaxSaves : new(t) \in Sta!Saves \cup {Sta!NoSave}
  BY <1>1, <1>5, <1>6 DEF FileTable
<1>8. staSave' \in FileTable /\ \A t \in 1 .. MaxSaves : staSave'[t] = new(t)
  BY <1>4, <1>7 DEF FileTable
<1>9. \A t \in Sta!Begun : t # s =>
         /\ staSave'[t] \in Sta!Saves /\ staSave'[t].pc = staSave[t].pc
         /\ staSave'[t].file = staSave[t].file /\ staSave'[t].old = staSave[t].old
         /\ staSave'[t].new = staSave[t].new /\ staSave'[t].sole = staSave[t].sole
         /\ staSave[t].file # staSave[s].file => staSave'[t].mixed = staSave[t].mixed
  BY <1>1, <1>6, <1>8
<1>10. staSave'[s] = r
  BY <1>1, <1>8
<1> QED
  BY <1>2, <1>3, <1>5, <1>8, <1>9, <1>10 DEF FileMoved

\* It writes the file of the save and its copy, and no other.
FileOnly(s) ==
    /\ staFile' \in [Files -> Sta!Kinds] /\ staBak' \in [Files -> Sta!Kinds]
    /\ \A g \in Files : g # staSave[s].file => staFile'[g] = staFile[g] /\ staBak'[g] = staBak[g]

\* What has to be there when a save comes to a stage, or ends.
FileMay(s, pc) ==
    LET old == staSave[s].old
        c   == staFile'[staSave[s].file]
        b   == staBak'[staSave[s].file]
    IN  /\ pc = "create" => old = Missing
        /\ pc \in {"backup", "copy", "restore"} => old # Missing
        /\ staSave[s].sole =>
             /\ pc \in {"validate", "create", "backup", "copy", "truncate"} => c = old
             /\ pc \in {"truncate", "write", "check", "restore"} => old = Missing \/ b = old
             /\ pc = "check" => c = staSave[s].new
             /\ pc \in Sta!Results /\ old # Missing => old \in {c, b}
             /\ pc = "refused" => c = old
             /\ pc = "saved" => c = staSave[s].new /\ (old # Missing => b = old)

\* A step of a save that is under way leaves the invariant of the others alone.
LEMMA FileKeepsInv ==
    ASSUME FileInv, NEW s \in Sta!Begun, Sta!Live(s), UNCHANGED staSaves,
           NEW pc \in Sta!Stages \cup Sta!Results, NEW mixed \in BOOLEAN,
           FileMoved(s, pc, mixed), staSave[s].sole => ~mixed,
           staWorker' \in {0, staWorker}, staBase' \in FileBases,
           FileOnly(s), FileMay(s, pc)
    PROVE  FileInv'
<1>1. Sta!TypeOK'
  <2>1. staWorker' \in 0 .. staSaves'
    BY DEF FileInv, Sta!TypeOK
  <2> QED
    BY <2>1 DEF FileInv, FileMoved, FileTable, FileBases, FileOnly, Sta!TypeOK
<1>2. Sta!Begun' = Sta!Begun
  BY DEF Sta!Begun
<1>4. staSave'[s] \in Sta!Saves /\ FileOrder(s)'
  BY DEF FileMoved, FileOrder, FileMay
<1>5. ASSUME staSave'[s].sole PROVE FileAlone(s)' /\ FileStage(s)'
  <2>1. staSave[s].sole
    BY <1>5 DEF FileMoved
  <2>2. FileAlone(s)'
    BY <1>2, <2>1 DEF FileInv, FileAlone, FileMoved, Sta!Live
  <2>3. FileStage(s)'
    BY <2>1 DEF FileMoved, FileStage, FileMay
  <2> QED
    BY <2>2, <2>3
<1>6. ASSUME NEW t \in Sta!Begun, t # s
      PROVE  /\ staSave'[t] \in Sta!Saves /\ FileOrder(t)'
             /\ staSave'[t].sole => FileAlone(t)' /\ FileStage(t)'
  <2>1. staSave'[t] \in Sta!Saves /\ FileOrder(t)'
    BY <1>6 DEF FileInv, FileMoved, FileOrder
  <2>2. ASSUME staSave'[t].sole PROVE FileAlone(t)' /\ FileStage(t)'
    <3>1. staSave[t].sole /\ FileAlone(t) /\ FileStage(t)
      BY <1>6, <2>2 DEF FileInv, FileMoved
    <3>2. staSave[t].file # staSave[s].file
      BY <1>6, <3>1 DEF FileAlone
    <3>3. staFile'[staSave[t].file] = staFile[staSave[t].file] /\ staBak'[staSave[t].file] = staBak[staSave[t].file]
      BY <3>2, FileAt DEF FileOnly
    <3>4. FileAlone(t)'
      BY <1>2, <1>6, <3>1, <3>2 DEF FileAlone, FileMoved, Sta!Live
    <3>5. FileStage(t)'
      BY <1>6, <3>1, <3>3 DEF FileStage, FileMoved
    <3> QED
      BY <3>4, <3>5
  <2> QED
    BY <2>1, <2>2
<1> QED
  BY <1>1, <1>2, <1>4, <1>5, <1>6 DEF FileInv

\* Where a save is, what it found and what it has written.
LEMMA FileHere ==
    ASSUME FileInv, NEW s \in Sta!Begun, NEW pc \in Sta!Stages, Sta!At(s, pc)
    PROVE  /\ Sta!Live(s) /\ staSave[s].pc = pc /\ FileOrder(s)
           /\ staSave[s].sole => ~staSave[s].mixed /\ FileStage(s)
           /\ staBase \in FileBases
           /\ staFile \in [Files -> Sta!Kinds] /\ staBak \in [Files -> Sta!Kinds]
<1>1. staFile \in [Files -> Sta!Kinds] /\ staBak \in [Files -> Sta!Kinds] /\ staBase \in FileBases
  BY DEF FileInv, FileBases, Sta!TypeOK
<1>2. Sta!Live(s) /\ staSave[s].pc = pc
  BY DEF Sta!At, Sta!Live
<1> QED
  BY <1>1, <1>2 DEF FileInv, FileAlone

\* A save that ends with a result.
LEMMA FileEnds ==
    ASSUME FileInv, NEW s \in Sta!Begun, Sta!Live(s), UNCHANGED staSaves,
           NEW result \in Sta!Results, Sta!Finish(s, result), staBase' \in FileBases,
           FileOnly(s), FileMay(s, result)
    PROVE  FileInv'
<1>1. FileMoved(s, result, staSave[s].mixed)
  BY FilePc DEF Sta!Finish
<1>2. staSave[s].mixed \in BOOLEAN /\ (staSave[s].sole => ~staSave[s].mixed)
  BY FileAt DEF FileInv, FileAlone
<1>3. staWorker' \in {0, staWorker}
  BY DEF Sta!Finish
<1> QED
  BY <1>1, <1>2, <1>3, FileKeepsInv

\* A save that goes on to its next stage.
LEMMA FileGoesOn ==
    ASSUME FileInv, NEW s \in Sta!Begun, Sta!Live(s), UNCHANGED <<staSaves, staBase>>,
           NEW pc \in Sta!Stages, NEW stages \in SUBSET Sta!Stages,
           Sta!Goto(s, pc) \/ Sta!Fill(s, pc, stages),
           FileOnly(s), FileMay(s, pc)
    PROVE  FileInv'
<1>1. PICK mixed \in BOOLEAN : FileMoved(s, pc, mixed) /\ (staSave[s].sole => ~mixed)
  <2>1. CASE Sta!Goto(s, pc)
    <3>1. FileMoved(s, pc, staSave[s].mixed)
      BY <2>1, FilePc DEF Sta!Goto
    <3>2. staSave[s].mixed \in BOOLEAN /\ (staSave[s].sole => ~staSave[s].mixed)
      BY FileAt DEF FileInv, FileAlone
    <3> QED
      BY <3>1, <3>2
  <2>2. CASE Sta!Fill(s, pc, stages)
    BY <2>2, FileFill
  <2> QED
    BY <2>1, <2>2
<1>2. staWorker' \in {0, staWorker} /\ staBase' \in FileBases
  BY DEF Sta!Goto, Sta!Fill, FileInv, FileBases, Sta!TypeOK
<1> QED
  BY <1>1, <1>2, FileKeepsInv

\* What a save fills is what it means to, or a mixture if another one has truncated it too.
LEMMA FileFilled ==
    ASSUME FileInv, NEW s \in Sta!Begun, NEW k \in Sta!Kinds, NEW c \in Sta!Filled(s, k)
    PROVE  c \in Sta!Kinds /\ (staSave[s].sole => c = k)
<1>1. staSave[s].sole => ~staSave[s].mixed
  BY DEF FileInv, FileAlone
<1>2. Torn \in Sta!Kinds /\ c \in {k, Torn}
  BY DEF Sta!Kinds, Sta!Filled
<1> QED
  BY <1>1, <1>2 DEF Sta!Filled

LEMMA FileNames ==
    /\ Sta!Stages = {"validate", "create", "backup", "copy", "truncate", "write", "check", "restore"}
    /\ Sta!Results = {"saved", "refused", "failed", "cut"}
    /\ Sta!InFile \in SUBSET Sta!Stages /\ {"copy"} \in SUBSET Sta!Stages
  BY DEF Sta!Stages, Sta!Results, Sta!InFile

LEMMA FileValidate ==
    ASSUME FileInv, NEW s \in Sta!Begun, Sta!ValidateFirst(s) PROVE FileInv'
<1> DEFINE f == staSave[s].file
           old == staSave[s].old
<1>1. Sta!At(s, "validate") /\ UNCHANGED <<staFile, staBak, staBase, staSaves>>
  BY DEF Sta!ValidateFirst
<1>2. /\ Sta!Live(s) /\ f \in Files /\ staBase \in FileBases
      /\ staFile \in [Files -> Sta!Kinds] /\ staBak \in [Files -> Sta!Kinds]
      /\ staSave[s].sole => staFile[f] = old
  BY <1>1, FileHere, FileAt, FileNames DEF FileStage
<1>3. FileOnly(s) /\ staFile'[f] = staFile[f] /\ staBak'[f] = staBak[f]
  BY <1>1, <1>2 DEF FileOnly
<1>4. CASE Sta!Finish(s, "refused")
  <2>1. FileMay(s, "refused")
    BY <1>2, <1>3, FileNames DEF FileMay
  <2> QED
    BY <1>1, <1>2, <1>3, <1>4, <2>1, FileEnds, FileNames
<1>5. CASE old = Missing /\ Sta!Goto(s, "create")
  <2>1. FileMay(s, "create")
    BY <1>2, <1>3, <1>5, FileNames DEF FileMay
  <2> QED
    BY <1>1, <1>2, <1>3, <1>5, <2>1, FileGoesOn, FileNames
<1>6. CASE old # Missing /\ Sta!Goto(s, "backup")
  <2>1. FileMay(s, "backup")
    BY <1>2, <1>3, <1>6, FileNames DEF FileMay
  <2> QED
    BY <1>1, <1>2, <1>3, <1>6, <2>1, FileGoesOn, FileNames
<1> QED
  BY <1>4, <1>5, <1>6 DEF Sta!ValidateFirst

LEMMA FileCreate == ASSUME FileInv, NEW s \in Sta!Begun, Sta!Create(s) PROVE FileInv'
<1> DEFINE f == staSave[s].file
           old == staSave[s].old
<1>1. Sta!At(s, "create") /\ UNCHANGED <<staBak, staBase, staSaves>>
  BY DEF Sta!Create
<1>2. /\ Sta!Live(s) /\ f \in Files /\ staBase \in FileBases
      /\ staFile \in [Files -> Sta!Kinds] /\ staBak \in [Files -> Sta!Kinds]
      /\ old \in Sta!Kinds /\ staSave[s].new \in Sta!Kinds /\ Torn \in Sta!Kinds
      /\ old = Missing /\ (staSave[s].sole => staFile[f] = old)
  BY <1>1, FileHere, FileAt, FileNames DEF FileStage, FileOrder
<1>3. CASE Sta!Put(s, Torn) /\ Sta!Fill(s, "write", Sta!InFile)
  <2>1. FileOnly(s) /\ staFile'[f] = Torn /\ staBak'[f] = staBak[f]
    BY <1>1, <1>2, <1>3 DEF FileOnly, Sta!Put
  <2>2. FileMay(s, "write")
    BY <1>2, <2>1, FileNames DEF FileMay
  <2> QED
    BY <1>1, <1>2, <1>3, <2>1, <2>2, FileGoesOn, FileNames
<1>4. CASE Sta!Finish(s, "refused") /\ UNCHANGED staFile
  <2>1. FileOnly(s) /\ staFile'[f] = staFile[f] /\ staBak'[f] = staBak[f]
    BY <1>1, <1>2, <1>4 DEF FileOnly, Sta!Put
  <2>2. FileMay(s, "refused")
    BY <1>2, <2>1, FileNames DEF FileMay
  <2> QED
    BY <1>1, <1>2, <1>4, <2>1, <2>2, FileEnds, FileNames
<1> QED
  BY <1>3, <1>4 DEF Sta!Create

LEMMA FileBackup == ASSUME FileInv, NEW s \in Sta!Begun, Sta!Backup(s) PROVE FileInv'
<1> DEFINE f == staSave[s].file
           old == staSave[s].old
<1>1. Sta!At(s, "backup") /\ UNCHANGED <<staFile, staBase, staSaves>>
  BY DEF Sta!Backup
<1>2. /\ Sta!Live(s) /\ f \in Files /\ staBase \in FileBases
      /\ staFile \in [Files -> Sta!Kinds] /\ staBak \in [Files -> Sta!Kinds]
      /\ old \in Sta!Kinds /\ staSave[s].new \in Sta!Kinds /\ Torn \in Sta!Kinds
      /\ old # Missing /\ (staSave[s].sole => staFile[f] = old)
  BY <1>1, FileHere, FileAt, FileNames DEF FileStage, FileOrder
<1>3. CASE staBak' = [staBak EXCEPT ![f] = Torn] /\ Sta!Fill(s, "copy", {"copy"})
  <2>1. FileOnly(s) /\ staFile'[f] = staFile[f] /\ staBak'[f] = Torn
    BY <1>1, <1>2, <1>3 DEF FileOnly, Sta!Put
  <2>2. FileMay(s, "copy")
    BY <1>2, <2>1, FileNames DEF FileMay
  <2> QED
    BY <1>1, <1>2, <1>3, <2>1, <2>2, FileGoesOn, FileNames
<1>4. CASE Sta!Finish(s, "refused") /\ UNCHANGED staBak
  <2>1. FileOnly(s) /\ staFile'[f] = staFile[f] /\ staBak'[f] = staBak[f]
    BY <1>1, <1>2, <1>4 DEF FileOnly, Sta!Put
  <2>2. FileMay(s, "refused")
    BY <1>2, <2>1, FileNames DEF FileMay
  <2> QED
    BY <1>1, <1>2, <1>4, <2>1, <2>2, FileEnds, FileNames
<1> QED
  BY <1>3, <1>4 DEF Sta!Backup

LEMMA FileCopy == ASSUME FileInv, NEW s \in Sta!Begun, Sta!Copy(s) PROVE FileInv'
<1> DEFINE f == staSave[s].file
           old == staSave[s].old
<1>1. Sta!At(s, "copy") /\ UNCHANGED <<staFile, staBase, staSaves>>
  BY DEF Sta!Copy
<1>2. /\ Sta!Live(s) /\ f \in Files /\ staBase \in FileBases
      /\ staFile \in [Files -> Sta!Kinds] /\ staBak \in [Files -> Sta!Kinds]
      /\ old \in Sta!Kinds /\ staSave[s].new \in Sta!Kinds /\ Torn \in Sta!Kinds
      /\ old # Missing /\ (staSave[s].sole => staFile[f] = old)
  BY <1>1, FileHere, FileAt, FileNames DEF FileStage, FileOrder
<1>3. ASSUME NEW c \in Sta!Filled(s, old), staBak' = [staBak EXCEPT ![f] = c], Sta!Goto(s, "truncate")
      PROVE  FileInv'
  <2>1. c \in Sta!Kinds /\ (staSave[s].sole => c = old)
    BY <1>2, FileFilled
  <2>2. FileOnly(s) /\ staFile'[f] = staFile[f] /\ staBak'[f] = c
    BY <1>1, <1>2, <1>3, <2>1 DEF FileOnly, Sta!Put
  <2>3. FileMay(s, "truncate")
    BY <1>2, <2>1, <2>2, FileNames DEF FileMay
  <2> QED
    BY <1>1, <1>2, <1>3, <2>2, <2>3, FileGoesOn, FileNames
<1>4. ASSUME NEW c \in Sta!Filled(s, staBak[f]), staBak' = [staBak EXCEPT ![f] = c], Sta!Finish(s, "refused")
      PROVE  FileInv'
  <2>1. c \in Sta!Kinds /\ (staSave[s].sole => c = staBak[f])
    BY <1>2, FileFilled
  <2>2. FileOnly(s) /\ staFile'[f] = staFile[f] /\ staBak'[f] = c
    BY <1>1, <1>2, <1>4, <2>1 DEF FileOnly, Sta!Put
  <2>3. FileMay(s, "refused")
    BY <1>2, <2>1, <2>2, FileNames DEF FileMay
  <2> QED
    BY <1>1, <1>2, <1>4, <2>2, <2>3, FileEnds, FileNames
<1> QED
  BY <1>3, <1>4 DEF Sta!Copy

LEMMA FileTruncate == ASSUME FileInv, NEW s \in Sta!Begun, Sta!Truncate(s) PROVE FileInv'
<1> DEFINE f == staSave[s].file
           old == staSave[s].old
<1>1. Sta!At(s, "truncate") /\ UNCHANGED <<staBak, staBase, staSaves>>
  BY DEF Sta!Truncate
<1>2. /\ Sta!Live(s) /\ f \in Files /\ staBase \in FileBases
      /\ staFile \in [Files -> Sta!Kinds] /\ staBak \in [Files -> Sta!Kinds]
      /\ old \in Sta!Kinds /\ staSave[s].new \in Sta!Kinds /\ Torn \in Sta!Kinds
      /\ staSave[s].sole => staFile[f] = old /\ (old = Missing \/ staBak[f] = old)
  BY <1>1, FileHere, FileAt, FileNames DEF FileStage, FileOrder
<1>3. CASE Sta!Put(s, Torn) /\ Sta!Fill(s, "write", Sta!InFile)
  <2>1. FileOnly(s) /\ staFile'[f] = Torn /\ staBak'[f] = staBak[f]
    BY <1>1, <1>2, <1>3 DEF FileOnly, Sta!Put
  <2>2. FileMay(s, "write")
    BY <1>2, <2>1, FileNames DEF FileMay
  <2> QED
    BY <1>1, <1>2, <1>3, <2>1, <2>2, FileGoesOn, FileNames
<1>4. CASE Sta!Finish(s, "failed") /\ UNCHANGED staFile
  <2>1. FileOnly(s) /\ staFile'[f] = staFile[f] /\ staBak'[f] = staBak[f]
    BY <1>1, <1>2, <1>4 DEF FileOnly, Sta!Put
  <2>2. FileMay(s, "failed")
    BY <1>2, <2>1, FileNames DEF FileMay
  <2> QED
    BY <1>1, <1>2, <1>4, <2>1, <2>2, FileEnds, FileNames
<1> QED
  BY <1>3, <1>4 DEF Sta!Truncate

\* The editor goes on from what it has saved.
LEMMA FileSavedBase ==
    ASSUME FileInv, NEW s \in Sta!Begun, Sta!Saved(s)
    PROVE  staBase' \in FileBases /\ Sta!Finish(s, "saved")
<1>1. /\ staBase \in FileBases
      /\ staBase' = IF staWorker # s THEN staBase
                    ELSE [staBase EXCEPT ![staSave[s].editor] = [file |-> staSave[s].file, sum |-> staSave[s].new]]
  BY DEF FileInv, Sta!TypeOK, FileBases, Sta!Saved
<1>2. staBase' \in FileBases
  BY <1>1, FileAt DEF FileBases
<1> QED
  BY <1>2 DEF Sta!Saved

LEMMA FileWrite == ASSUME FileInv, NEW s \in Sta!Begun, Sta!Write(s) PROVE FileInv'
<1> DEFINE f == staSave[s].file
           old == staSave[s].old
<1>1. Sta!At(s, "write") /\ UNCHANGED <<staBak, staSaves>>
  BY DEF Sta!Write
<1>2. /\ Sta!Live(s) /\ f \in Files /\ staBase \in FileBases
      /\ staFile \in [Files -> Sta!Kinds] /\ staBak \in [Files -> Sta!Kinds]
      /\ old \in Sta!Kinds /\ staSave[s].new \in Sta!Kinds /\ Torn \in Sta!Kinds
      /\ staSave[s].sole => old = Missing \/ staBak[f] = old
  BY <1>1, FileHere, FileAt, FileNames DEF FileStage, FileOrder
<1>3. ASSUME NEW c \in Sta!Filled(s, staSave[s].new), Sta!Put(s, c), Sta!Finish(s, "saved"), staBase' \in FileBases
      PROVE  FileInv'
  <2>1. c \in Sta!Kinds /\ (staSave[s].sole => c = staSave[s].new)
    BY <1>2, FileFilled
  <2>2. FileOnly(s) /\ staFile'[f] = c /\ staBak'[f] = staBak[f]
    BY <1>1, <1>2, <1>3, <2>1 DEF FileOnly, Sta!Put
  <2>3. FileMay(s, "saved")
    BY <1>2, <2>1, <2>2, FileNames DEF FileMay
  <2> QED
    BY <1>1, <1>2, <1>3, <2>2, <2>3, FileEnds, FileNames
<1>4. ASSUME NEW c \in Sta!Filled(s, staSave[s].new), Sta!Put(s, c), Sta!Goto(s, "check"), UNCHANGED staBase
      PROVE  FileInv'
  <2>1. c \in Sta!Kinds /\ (staSave[s].sole => c = staSave[s].new)
    BY <1>2, FileFilled
  <2>2. FileOnly(s) /\ staFile'[f] = c /\ staBak'[f] = staBak[f]
    BY <1>1, <1>2, <1>4, <2>1 DEF FileOnly, Sta!Put
  <2>3. FileMay(s, "check")
    BY <1>2, <2>1, <2>2, FileNames DEF FileMay
  <2> QED
    BY <1>1, <1>2, <1>4, <2>2, <2>3, FileGoesOn, FileNames
<1>5. ASSUME NEW c \in Sta!Filled(s, staFile[f]), Sta!Put(s, c), Sta!Finish(s, "failed"), UNCHANGED staBase
      PROVE  FileInv'
  <2>1. c \in Sta!Kinds /\ (staSave[s].sole => c = staFile[f])
    BY <1>2, FileFilled
  <2>2. FileOnly(s) /\ staFile'[f] = c /\ staBak'[f] = staBak[f]
    BY <1>1, <1>2, <1>5, <2>1 DEF FileOnly, Sta!Put
  <2>3. FileMay(s, "failed")
    BY <1>2, <2>1, <2>2, FileNames DEF FileMay
  <2> QED
    BY <1>1, <1>2, <1>5, <2>2, <2>3, FileEnds, FileNames
<1> QED
  BY <1>3, <1>4, <1>5, FileSavedBase DEF Sta!Write

LEMMA FileCheckCompose == ASSUME FileInv, NEW s \in Sta!Begun, Sta!CheckCompose(s) PROVE FileInv'
<1> DEFINE f == staSave[s].file
           old == staSave[s].old
<1>1. Sta!At(s, "check") /\ UNCHANGED <<staBak, staSaves>>
  BY DEF Sta!CheckCompose
<1>2. /\ Sta!Live(s) /\ f \in Files /\ staBase \in FileBases
      /\ staFile \in [Files -> Sta!Kinds] /\ staBak \in [Files -> Sta!Kinds]
      /\ old \in Sta!Kinds /\ staSave[s].new \in Sta!Kinds /\ Torn \in Sta!Kinds
      /\ staSave[s].sole => staFile[f] = staSave[s].new /\ (old = Missing \/ staBak[f] = old)
  BY <1>1, FileHere, FileAt, FileNames DEF FileStage, FileOrder
<1>3. CASE old = Missing /\ Sta!Finish(s, "failed") /\ UNCHANGED <<staFile, staBase>>
  <2>1. FileOnly(s) /\ staFile'[f] = staFile[f] /\ staBak'[f] = staBak[f]
    BY <1>1, <1>2, <1>3 DEF FileOnly, Sta!Put
  <2>2. FileMay(s, "failed")
    BY <1>2, <1>3, <2>1, FileNames DEF FileMay
  <2> QED
    BY <1>1, <1>2, <1>3, <2>1, <2>2, FileEnds, FileNames
<1>4. CASE old # Missing /\ Sta!Put(s, Torn) /\ Sta!Fill(s, "restore", Sta!InFile) /\ UNCHANGED staBase
  <2>1. FileOnly(s) /\ staFile'[f] = Torn /\ staBak'[f] = staBak[f]
    BY <1>1, <1>2, <1>4 DEF FileOnly, Sta!Put
  <2>2. FileMay(s, "restore")
    BY <1>2, <1>4, <2>1, FileNames DEF FileMay
  <2> QED
    BY <1>1, <1>2, <1>4, <2>1, <2>2, FileGoesOn, FileNames
<1>5. CASE Sta!Finish(s, "saved") /\ staBase' \in FileBases /\ UNCHANGED staFile
  <2>1. FileOnly(s) /\ staFile'[f] = staFile[f] /\ staBak'[f] = staBak[f]
    BY <1>1, <1>2, <1>5 DEF FileOnly, Sta!Put
  <2>2. FileMay(s, "saved")
    BY <1>2, <2>1, FileNames DEF FileMay
  <2> QED
    BY <1>1, <1>2, <1>5, <2>1, <2>2, FileEnds, FileNames
<1> QED
  BY <1>3, <1>4, <1>5, FileSavedBase DEF Sta!CheckCompose

LEMMA FileRestore == ASSUME FileInv, NEW s \in Sta!Begun, Sta!Restore(s) PROVE FileInv'
<1> DEFINE f == staSave[s].file
           old == staSave[s].old
<1>1. Sta!At(s, "restore") /\ UNCHANGED <<staBak, staBase, staSaves>>
  BY DEF Sta!Restore
<1>2. /\ Sta!Live(s) /\ f \in Files /\ staBase \in FileBases
      /\ staFile \in [Files -> Sta!Kinds] /\ staBak \in [Files -> Sta!Kinds]
      /\ old \in Sta!Kinds /\ staSave[s].new \in Sta!Kinds /\ Torn \in Sta!Kinds
      /\ old # Missing /\ (staSave[s].sole => staBak[f] = old)
  BY <1>1, FileHere, FileAt, FileNames DEF FileStage, FileOrder
<1>3. ASSUME NEW c \in Sta!Filled(s, old), Sta!Put(s, c), Sta!Finish(s, "refused") PROVE FileInv'
  <2>1. c \in Sta!Kinds /\ (staSave[s].sole => c = old)
    BY <1>2, FileFilled
  <2>2. FileOnly(s) /\ staFile'[f] = c /\ staBak'[f] = staBak[f]
    BY <1>1, <1>2, <1>3, <2>1 DEF FileOnly, Sta!Put
  <2>3. FileMay(s, "refused")
    BY <1>2, <2>1, <2>2, FileNames DEF FileMay
  <2> QED
    BY <1>1, <1>2, <1>3, <2>2, <2>3, FileEnds, FileNames
<1>4. ASSUME NEW c \in Sta!Filled(s, staFile[f]), Sta!Put(s, c), Sta!Finish(s, "failed") PROVE FileInv'
  <2>1. c \in Sta!Kinds /\ (staSave[s].sole => c = staFile[f])
    BY <1>2, FileFilled
  <2>2. FileOnly(s) /\ staFile'[f] = c /\ staBak'[f] = staBak[f]
    BY <1>1, <1>2, <1>4, <2>1 DEF FileOnly, Sta!Put
  <2>3. FileMay(s, "failed")
    BY <1>2, <2>1, <2>2, FileNames DEF FileMay
  <2> QED
    BY <1>1, <1>2, <1>4, <2>2, <2>3, FileEnds, FileNames
<1> QED
  BY <1>3, <1>4 DEF Sta!Restore

LEMMA FileKill == ASSUME FileInv, NEW s \in Sta!Begun, Sta!Kill(s) PROVE FileInv'
<1> DEFINE f == staSave[s].file
           old == staSave[s].old
<1>1. /\ Sta!Live(s) /\ Sta!Finish(s, "cut") /\ UNCHANGED <<staFile, staBak, staBase, staSaves>>
      /\ staSave[s].pc \in Sta!Stages /\ Sta!At(s, staSave[s].pc)
  BY DEF Sta!Kill, Sta!Live, Sta!At
<1>2. /\ f \in Files /\ staBase \in FileBases
      /\ staFile \in [Files -> Sta!Kinds] /\ staBak \in [Files -> Sta!Kinds]
      /\ staSave[s].sole => (old # Missing => old \in {staFile[f], staBak[f]})
  BY <1>1, FileHere, FileAt, FileNames DEF FileStage
<1>3. FileOnly(s) /\ staFile'[f] = staFile[f] /\ staBak'[f] = staBak[f]
  BY <1>1, <1>2 DEF FileOnly
<1>4. FileMay(s, "cut")
  BY <1>2, <1>3, FileNames DEF FileMay
<1> QED
  BY <1>1, <1>2, <1>3, <1>4, FileEnds, FileNames

LEMMA FileOpen == ASSUME FileInv, NEW e \in Editors, NEW f \in Files, Sta!Open(e, f) PROVE FileInv'
<1>1. Sta!TypeOK'
  BY DEF FileInv, Sta!TypeOK, Sta!Open
<1>2. UNCHANGED <<staFile, staBak, staSaves, staSave>>
  BY DEF Sta!Open
<1> QED
  BY <1>1, <1>2 DEF FileInv, FileOrder, FileAlone, FileStage, Sta!Begun, Sta!Live

\* A helper that is left behind goes on as before.
LEMMA FileLeaveBehind == ASSUME FileInv, Sta!LeaveBehind PROVE FileInv'
<1>1. Sta!TypeOK'
  BY DEF FileInv, Sta!TypeOK, Sta!LeaveBehind
<1>2. UNCHANGED <<staFile, staBak, staSaves, staSave>>
  BY DEF Sta!LeaveBehind
<1> QED
  BY <1>1, <1>2 DEF FileInv, FileOrder, FileAlone, FileStage, Sta!Begun, Sta!Live

\* Whoever writes a file ends what was said of the saves of it before, and leaves the
\* saves of the others as they are.
LEMMA FileDisturbed ==
    ASSUME FileInv, NEW f \in Files
    PROVE  LET d == Sta!Disturbed(f) IN
           /\ d \in FileTable
           /\ \A t \in Sta!Begun :
                /\ d[t] \in Sta!Saves /\ d[t].file = staSave[t].file /\ d[t].pc = staSave[t].pc
                /\ d[t].old = staSave[t].old /\ d[t].new = staSave[t].new /\ d[t].mixed = staSave[t].mixed
                /\ d[t].sole => staSave[t].sole /\ staSave[t].file # f
<1> DEFINE d == Sta!Disturbed(f)
           x(t) == [staSave[t] EXCEPT !.sole = FALSE]
<1>1. staSave \in FileTable /\ \A t \in Sta!Begun : staSave[t] \in Sta!Saves /\ t \in 1 .. MaxSaves
  BY FileBound DEF FileInv, FileTable, Sta!TypeOK, Sta!Begun
<1>2. \A t \in Sta!Begun : /\ x(t) \in Sta!Saves /\ x(t).file = staSave[t].file /\ x(t).pc = staSave[t].pc
                           /\ x(t).old = staSave[t].old /\ x(t).new = staSave[t].new
                           /\ x(t).mixed = staSave[t].mixed /\ ~x(t).sole
  BY <1>1 DEF Sta!Saves
<1>3. d = [t \in DOMAIN staSave |-> IF t \in Sta!Begun /\ staSave[t].file = f THEN x(t) ELSE staSave[t]]
      /\ DOMAIN staSave = 1 .. MaxSaves
  BY <1>1 DEF Sta!Disturbed, FileTable
<1> HIDE DEF x, d
<1>4. \A t \in 1 .. MaxSaves : (IF t \in Sta!Begun /\ staSave[t].file = f THEN x(t) ELSE staSave[t])
                                \in Sta!Saves \cup {Sta!NoSave}
  BY <1>1, <1>2 DEF FileTable
<1>5. d \in FileTable
  BY <1>3, <1>4 DEF FileTable
<1>6. \A t \in Sta!Begun : d[t] = IF staSave[t].file = f THEN x(t) ELSE staSave[t]
  BY <1>1, <1>3
<1>7. \A t \in Sta!Begun :
                /\ d[t] \in Sta!Saves /\ d[t].file = staSave[t].file /\ d[t].pc = staSave[t].pc
                /\ d[t].old = staSave[t].old /\ d[t].new = staSave[t].new /\ d[t].mixed = staSave[t].mixed
                /\ d[t].sole => staSave[t].sole /\ staSave[t].file # f
  BY <1>1, <1>2, <1>6
<1> QED
  BY <1>5, <1>7 DEF d

LEMMA FileEditOutside ==
    ASSUME FileInv, NEW f \in Files, NEW c \in Contents \cup {Missing}, Sta!EditOutside(f, c)
    PROVE  FileInv'
<1>1. staFile' = [staFile EXCEPT ![f] = c] /\ staSave' = Sta!Disturbed(f)
      /\ UNCHANGED <<staBak, staBase, staSaves, staWorker>>
  BY DEF Sta!EditOutside
<1>2. Sta!TypeOK'
  BY <1>1, FileDisturbed DEF FileInv, Sta!TypeOK, FileTable, Sta!Kinds
<1>3. Sta!Begun' = Sta!Begun /\ \A g \in Files : g # f => staFile'[g] = staFile[g]
  BY <1>1 DEF FileInv, Sta!TypeOK, Sta!Begun
<1>4. ASSUME NEW t \in Sta!Begun
      PROVE  /\ staSave'[t] \in Sta!Saves /\ FileOrder(t)'
             /\ staSave'[t].sole => FileAlone(t)' /\ FileStage(t)'
  <2>1. staSave'[t] \in Sta!Saves /\ FileOrder(t)'
    BY <1>1, FileDisturbed DEF FileInv, FileOrder
  <2>2. ASSUME staSave'[t].sole PROVE FileAlone(t)' /\ FileStage(t)'
    <3>1. staSave[t].sole /\ staSave[t].file # f /\ staSave[t].file \in Files
      BY <1>1, <2>2, FileDisturbed, FileAt
    <3>2. FileAlone(t)'
      BY <1>1, <1>3, <3>1, FileDisturbed DEF FileInv, FileAlone, Sta!Live
    <3>3. FileStage(t)'
      BY <1>1, <1>3, <3>1, FileDisturbed DEF FileInv, FileStage
    <3> QED
      BY <3>2, <3>3
  <2> QED
    BY <2>1, <2>2
<1> QED
  BY <1>2, <1>3, <1>4 DEF FileInv

LEMMA FileSave ==
    ASSUME FileInv, NEW e \in Editors, NEW f \in Files, NEW c \in Contents,
           NEW sum \in Sta!Kinds \cup {Unset}, Sta!Save(e, f, c, sum)
    PROVE  FileInv'
<1> DEFINE n == staSaves + 1
           pc == IF f \in EnvFiles THEN "validate" ELSE IF staFile[f] = Missing THEN "truncate" ELSE "backup"
           sole == \A s \in Sta!Begun : staSave[s].file = f => ~Sta!Live(s)
           r == [file |-> f, editor |-> e, new |-> c, old |-> staFile[f], mixed |-> FALSE,
                 sole |-> sole, pc |-> pc]
           d == Sta!Disturbed(f)
<1>1. /\ staSaves' = n /\ staWorker' = n /\ staSave' = [d EXCEPT ![n] = r]
      /\ staSaves < MaxSaves /\ UNCHANGED <<staFile, staBak, staBase>>
  BY DEF Sta!Save
<1>2. staSaves \in Nat /\ n \in 1 .. MaxSaves /\ n \notin Sta!Begun /\ Sta!Begun' = Sta!Begun \cup {n}
  BY <1>1, FileBound DEF FileInv, Sta!TypeOK, Sta!Begun
<1>3. staFile[f] \in Sta!Kinds /\ pc \in Sta!Stages \cup Sta!Results /\ sole \in BOOLEAN
  BY FileNames DEF FileInv, Sta!TypeOK
<1>4. /\ r \in Sta!Saves /\ r.file = f /\ r.old = staFile[f] /\ r.pc = pc /\ ~r.mixed /\ r.sole = sole
  <2> HIDE DEF pc, sole
  <2> QED
    BY <1>3 DEF Sta!Saves
<1>5. /\ d \in FileTable
      /\ \A t \in Sta!Begun :
           /\ d[t] \in Sta!Saves /\ d[t].file = staSave[t].file /\ d[t].pc = staSave[t].pc
           /\ d[t].old = staSave[t].old /\ d[t].new = staSave[t].new /\ d[t].mixed = staSave[t].mixed
           /\ d[t].sole => staSave[t].sole /\ staSave[t].file # f
  BY FileDisturbed
<1> HIDE DEF d, r, n
<1>6. staSave' \in FileTable /\ staSave'[n] = r /\ \A t \in Sta!Begun : t # n /\ staSave'[t] = d[t]
  BY <1>1, <1>2, <1>4, <1>5 DEF FileTable
<1>7. Sta!TypeOK'
  BY <1>1, <1>2, <1>6, FileBound DEF FileInv, Sta!TypeOK, FileTable
<1>8. ASSUME NEW t \in Sta!Begun
      PROVE  /\ staSave'[t] \in Sta!Saves /\ FileOrder(t)'
             /\ staSave'[t].sole => FileAlone(t)' /\ FileStage(t)'
  <2>1. staSave'[t] \in Sta!Saves /\ FileOrder(t)'
    BY <1>5, <1>6 DEF FileInv, FileOrder
  <2>2. ASSUME staSave'[t].sole PROVE FileAlone(t)' /\ FileStage(t)'
    <3>1. staSave[t].sole /\ staSave[t].file # f
      BY <1>5, <1>6, <2>2
    <3>2. FileAlone(t)'
      BY <1>2, <1>4, <1>5, <1>6, <3>1 DEF FileInv, FileAlone, Sta!Live
    <3>3. FileStage(t)'
      BY <1>1, <1>5, <1>6, <3>1 DEF FileInv, FileStage
    <3> QED
      BY <3>2, <3>3
  <2> QED
    BY <2>1, <2>2
<1>9. ASSUME NEW m, m = n
      PROVE  /\ staSave'[m] \in Sta!Saves /\ FileOrder(m)'
             /\ staSave'[m].sole => FileAlone(m)' /\ FileStage(m)'
  <2>1. staSave'[m] = r
    BY <1>6, <1>9
  <2>2. staSave'[m] \in Sta!Saves /\ FileOrder(m)'
    BY <1>4, <2>1 DEF FileOrder
  <2>3. ASSUME sole PROVE FileAlone(m)'
    BY <1>2, <1>4, <1>5, <1>6, <1>9, <2>1, <2>3 DEF FileAlone, Sta!Live
  <2>4. FileStage(m)'
    BY <1>1, <1>4, <2>1, FileNames DEF FileStage
  <2> QED
    BY <1>4, <2>1, <2>2, <2>3, <2>4
<1>10. Sta!Begun' = Sta!Begun \cup {n}
  BY <1>2
<1> HIDE DEF pc, sole
<1> QED
  BY <1>7, <1>8, <1>9, <1>10 DEF FileInv

LEMMA FileStep == ASSUME FileInv, Sta!Next \/ UNCHANGED staVars PROVE FileInv'
<1>1. CASE UNCHANGED staVars
  BY <1>1 DEF staVars, FileInv, FileOrder, FileAlone, FileStage, Sta!TypeOK, Sta!Begun, Sta!Live
<1>2. ASSUME NEW s \in Sta!Begun, Sta!Step(s) PROVE FileInv'
  BY <1>2, FileValidate, FileCreate, FileBackup, FileCopy, FileTruncate, FileWrite,
     FileCheckCompose, FileRestore, FileKill DEF Sta!Step
<1> QED
  BY <1>1, <1>2, FileOpen, FileEditOutside, FileSave, FileLeaveBehind DEF Sta!Next

\* No save loses the version it replaces, whichever helpers are killed or left behind,
\* unless another one writes the same file meanwhile.
THEOREM FilesPart == Spec => []SavesKeepEdits
<1> DEFINE Inv == part = "files" => FileInv
<1>1. Init => Inv
  BY FileInit DEF Init
<1>2. Inv /\ [Next]_vars => Inv'
  BY PartStep, FileStep
<1>3. Inv => SavesKeepEdits
  BY FileInvKeeps DEF SavesKeepEdits
<1> QED
  BY <1>1, <1>2, <1>3, PTL DEF Spec

-----------------------------------------------------------------------------
(* The audit log. *)

AuditEntry == [id : Nat \ {0}, prev : Nat]
AuditTypes ==
    /\ audEntries \in Seq(AuditEntry) /\ audFile \in Seq(AuditEntry)
    /\ audRecorded \in Nat /\ audPrevHash \in Nat
    /\ audEnd \in {"ended", "cut", "bare"} /\ (audEnd = "bare" => audFile # <<>>)

\* Each entry on file is later than the one before it, which it names unless that was lost.
AuditLinked ==
    /\ \A i \in 1..Len(audFile) : audFile[i].id <= audRecorded
    /\ \A i, j \in 1..Len(audFile) : i < j => audFile[i].id < audFile[j].id
    /\ \A i \in 1..(Len(audFile) - 1) : audFile[i + 1].prev \in {audFile[i].id} \cup audLost
    /\ audFile # <<>> => audPrevHash \in {audFile[Len(audFile)].id} \cup audLost

\* What is not on file is lost, or older than a whole window of what is: one more if the last
\* entry can still be swallowed.
AuditOnFile(e) == \E i \in 1..Len(audFile) : audFile[i].id = e
AuditWindow == IF audEnd = "bare" THEN Keep + 1 ELSE Keep
AuditKept ==
    \A e \in 1..audRecorded : e \in audLost \/ AuditOnFile(e)
        \/ (Len(audFile) >= AuditWindow /\ e < audFile[1].id)

AuditMemory == audEntries # <<>> => audEntries[Len(audEntries)].id = audPrevHash

AuditInv == AuditTypes /\ AuditLinked /\ AuditKept /\ AuditMemory

LEMMA AuditConstants == Keep \in Nat \ {0}
  BY PartsAssumption DEF Aud!KeepAssumption

LEMMA AuditInit == Aud!Init => AuditInv
  BY DEF Aud!Init, AuditInv, AuditTypes, AuditLinked, AuditKept, AuditMemory

\* The last n entries of a sequence, one by one.
LEMMA AuditLastOf ==
    ASSUME NEW S, NEW s \in Seq(S), NEW n \in Nat \ {0}
    PROVE  /\ Aud!LastOf(s, n) \in Seq(S) /\ Len(s) \in Nat
           /\ Len(Aud!LastOf(s, n)) = IF Len(s) <= n THEN Len(s) ELSE n
           /\ \A i \in 1..Len(Aud!LastOf(s, n)) :
                /\ Len(s) - Len(Aud!LastOf(s, n)) + i \in 1..Len(s)
                /\ Aud!LastOf(s, n)[i] = s[Len(s) - Len(Aud!LastOf(s, n)) + i]
<1>0. Len(s) \in Nat
  BY LenProperties
<1>1. CASE Len(s) <= n
  BY <1>0, <1>1 DEF Aud!LastOf
<1>2. CASE Len(s) > n
  <2> DEFINE m == Len(s) - n + 1
             t == SubSeq(s, m, Len(s))
  <2>1. m \in Int /\ Len(s) \in Int /\ m <= Len(s) /\ Len(s) - m + 1 = n /\ m >= 1
    BY <1>0, <1>2
  <2>2. \A i \in m..Len(s) : s[i] \in S
    BY <1>0, <2>1, ElementOfSeq
  <2>3. t \in Seq(S) /\ Len(t) = n /\ \A i \in 1..n : t[i] = s[m + i - 1]
    BY <2>1, <2>2, SubSeqProperties
  <2>4. Aud!LastOf(s, n) = t
    BY <1>0, <1>2 DEF Aud!LastOf
  <2>5. \A i \in 1..n : m + i - 1 = Len(s) - n + i /\ Len(s) - n + i \in 1..Len(s)
    BY <1>0, <1>2
  <2> QED
    BY <1>0, <1>2, <2>3, <2>4, <2>5
<1> QED
  BY <1>0, <1>1, <1>2

LEMMA AuditIds ==
    ASSUME AuditInv
    PROVE  /\ DOMAIN audFile = 1..Len(audFile) /\ Len(audFile) \in Nat
           /\ \A i \in 1..Len(audFile) : audFile[i].id \in Nat /\ audFile[i].id <= audRecorded
<1>1. audFile \in Seq(AuditEntry)
  BY DEF AuditInv, AuditTypes
<1>2. \A i \in 1..Len(audFile) : audFile[i] \in AuditEntry
  BY <1>1, ElementOfSeq
<1>3. DOMAIN audFile = 1..Len(audFile) /\ Len(audFile) \in Nat
  BY <1>1, LenProperties
<1> QED
  BY <1>2, <1>3 DEF AuditEntry, AuditInv, AuditLinked

LEMMA AuditInvHolds == AuditInv => Aud!ChainHolds
<1> SUFFICES ASSUME AuditInv PROVE Aud!ChainHolds
  OBVIOUS
<1>1. /\ DOMAIN audFile = 1..Len(audFile) /\ Len(audFile) \in Nat /\ audRecorded \in Nat
      /\ \A i \in 1..Len(audFile) : audFile[i].id \in Nat
  BY AuditIds DEF AuditInv, AuditTypes
<1>2. ASSUME NEW i \in 1..(Len(audFile) - 1)
      PROVE  audFile[i].id < audFile[i + 1].id /\ audFile[i + 1].prev \in {audFile[i].id} \cup audLost
  BY <1>1 DEF AuditInv, AuditLinked
<1>3. ASSUME NEW e \in 1..audRecorded \ audLost,
             Len(audFile) < Keep \/ e >= audFile[Len(audFile) - Keep + 1].id
      PROVE  AuditOnFile(e)
  <2> SUFFICES ASSUME ~AuditOnFile(e) PROVE FALSE
    OBVIOUS
  <2>1. Len(audFile) >= Keep /\ e < audFile[1].id /\ e \in Nat
    BY <1>1, AuditConstants DEF AuditInv, AuditKept, AuditWindow
  <2> DEFINE k == Len(audFile) - Keep + 1
  <2>2. k \in 1..Len(audFile) /\ 1 \in 1..Len(audFile)
    BY <1>1, <2>1, AuditConstants
  <2>3. audFile[1].id <= audFile[k].id
    <3>1. CASE k = 1
      BY <1>1, <2>2, <3>1
    <3>2. CASE k # 1
      <4>1. 1 < k
        BY <2>2, <3>2
      <4> HIDE DEF k
      <4> QED
        BY <1>1, <2>2, <4>1 DEF AuditInv, AuditLinked
    <3> QED
      BY <3>1, <3>2
  <2>4. e >= audFile[k].id
    BY <1>1, <1>3, <2>1, AuditConstants
  <2> HIDE DEF k
  <2> QED
    BY <1>1, <2>1, <2>2, <2>3, <2>4
<1> QED
  BY <1>1, <1>2, <1>3 DEF Aud!ChainHolds, AuditInv, AuditMemory, AuditOnFile

\* What Record does to the memory.
LEMMA AuditRemember ==
    ASSUME AuditInv, Aud!Remember
    PROVE  /\ audRecorded' = audRecorded + 1 /\ audPrevHash' = audRecorded + 1
           /\ audEntries' \in Seq(AuditEntry) /\ AuditMemory'
           /\ Aud!NextEntry \in AuditEntry
           /\ Aud!NextEntry.id = audRecorded + 1 /\ Aud!NextEntry.prev = audPrevHash
<1>1. /\ audRecorded' = audRecorded + 1 /\ audPrevHash' = audRecorded + 1
      /\ audEntries' = Aud!LastOf(Append(audEntries, Aud!NextEntry), Keep)
  BY DEF Aud!Remember
<1>2. /\ Aud!NextEntry \in AuditEntry
      /\ Aud!NextEntry.id = audRecorded + 1 /\ Aud!NextEntry.prev = audPrevHash
  BY DEF Aud!NextEntry, AuditInv, AuditTypes, AuditEntry
<1> DEFINE s == Append(audEntries, Aud!NextEntry)
<1>3. s \in Seq(AuditEntry) /\ Len(s) \in Nat \ {0} /\ s[Len(s)] = Aud!NextEntry
  BY <1>2, LogAppended DEF AuditInv, AuditTypes
<1>4. audEntries' = Aud!LastOf(s, Keep)
  BY <1>1
<1> HIDE DEF s
<1>5. /\ audEntries' \in Seq(AuditEntry) /\ Len(audEntries') \in Nat \ {0}
      /\ audEntries'[Len(audEntries')] = s[Len(s)]
  <2>1. Len(audEntries') \in Nat \ {0}
    BY <1>3, <1>4, AuditLastOf, AuditConstants
  <2>2. Len(audEntries') \in 1..Len(audEntries') /\ Len(s) - Len(audEntries') + Len(audEntries') = Len(s)
    BY <1>3, <2>1
  <2>3. audEntries'[Len(audEntries')] = s[Len(s) - Len(audEntries') + Len(audEntries')]
    BY <1>3, <1>4, <2>2, AuditLastOf, AuditConstants
  <2> QED
    BY <1>3, <1>4, <2>1, <2>2, <2>3, AuditLastOf, AuditConstants
<1>6. AuditMemory'
  BY <1>1, <1>2, <1>3, <1>5 DEF AuditMemory
<1> QED
  BY <1>1, <1>2, <1>5, <1>6

\* An entry on a line of its own.
LEMMA AuditWritten ==
    ASSUME AuditInv, Aud!Remember, Aud!Written, audEnd' \in {"ended", "bare"}
    PROVE  AuditInv'
<1> DEFINE e == Aud!NextEntry
           n == Len(audFile)
<1>0. /\ audRecorded' = audRecorded + 1 /\ audPrevHash' = audRecorded + 1
      /\ audEntries' \in Seq(AuditEntry) /\ AuditMemory'
      /\ e \in AuditEntry /\ e.id = audRecorded + 1 /\ e.prev = audPrevHash
  BY AuditRemember
<1>1. audEnd = "ended" /\ audFile' = Append(audFile, e) /\ audLost' = audLost
  BY DEF Aud!Written
<1> HIDE DEF e
<1>2. /\ audFile' \in Seq(AuditEntry) /\ Len(audFile') = n + 1 /\ n \in Nat
      /\ audFile'[n + 1] = e /\ \A i \in 1..n : audFile'[i] = audFile[i]
  BY <1>0, <1>1, LogAppended DEF AuditInv, AuditTypes
<1>3. \A i \in 1..n : audFile[i].id \in Nat /\ audFile[i].id <= audRecorded
  BY AuditIds
<1>4. AuditTypes'
  <2>1. audFile' # <<>>
    BY <1>2
  <2> QED
    BY <1>0, <1>2, <2>1 DEF AuditInv, AuditTypes
<1>5. AuditLinked'
  <2>0. audRecorded \in Nat /\ audFile'[Len(audFile')] = e
    BY <1>2 DEF AuditInv, AuditTypes
  <2>1. \A i \in 1..Len(audFile') : audFile'[i].id <= audRecorded'
    BY <1>0, <1>2, <1>3, <2>0
  <2>2. ASSUME NEW i \in 1..Len(audFile'), NEW j \in 1..Len(audFile'), i < j
        PROVE  audFile'[i].id < audFile'[j].id
    <3>1. i \in 1..n
      BY <1>2, <2>2
    <3>2. CASE j = n + 1
      BY <1>0, <1>2, <1>3, <2>0, <3>1, <3>2
    <3>3. CASE j # n + 1
      <4>1. j \in 1..n /\ audFile'[i] = audFile[i] /\ audFile'[j] = audFile[j]
        BY <1>2, <3>1, <3>3
      <4> QED
        BY <2>2, <3>1, <4>1 DEF AuditInv, AuditLinked
    <3> QED
      BY <3>2, <3>3
  <2>3. ASSUME NEW i \in 1..(Len(audFile') - 1)
        PROVE  audFile'[i + 1].prev \in {audFile'[i].id} \cup audLost'
    <3>1. i \in 1..n /\ audFile'[i] = audFile[i]
      BY <1>2, <2>3
    <3>2. CASE i = n
      <4>1. audFile # <<>> /\ audFile'[i + 1] = e
        BY <1>2, <3>1, <3>2
      <4> QED
        BY <1>0, <1>1, <3>1, <3>2, <4>1 DEF AuditInv, AuditLinked
    <3>3. CASE i # n
      <4>1. i \in 1..(n - 1) /\ audFile'[i + 1] = audFile[i + 1]
        BY <1>2, <3>1, <3>3
      <4> QED
        BY <1>1, <3>1, <4>1 DEF AuditInv, AuditLinked
    <3> QED
      BY <3>2, <3>3
  <2> QED
    BY <1>0, <2>0, <2>1, <2>2, <2>3 DEF AuditLinked
<1>6. AuditKept'
  <2> SUFFICES ASSUME NEW x \in 1..audRecorded', x \notin audLost', ~AuditOnFile(x)'
               PROVE  Len(audFile') >= AuditWindow' /\ x < audFile'[1].id
    BY DEF AuditKept
  <2>1. x # audRecorded + 1
    BY <1>0, <1>2 DEF AuditOnFile
  <2>2. x \in 1..audRecorded /\ x \notin audLost
    BY <1>0, <1>1, <2>1 DEF AuditInv, AuditTypes
  <2>3. ~AuditOnFile(x)
    BY <1>2 DEF AuditOnFile
  <2>4. n >= Keep /\ x < audFile[1].id
    BY <1>1, <2>2, <2>3 DEF AuditInv, AuditKept, AuditWindow
  <2>5. audFile'[1] = audFile[1]
    BY <1>2, <2>4, AuditConstants
  <2> QED
    BY <1>2, <2>4, <2>5, AuditConstants DEF AuditWindow
<1> QED
  BY <1>0, <1>4, <1>5, <1>6 DEF AuditInv

\* An entry that gets on no line.
LEMMA AuditFailed ==
    ASSUME AuditInv, Aud!Remember, UNCHANGED audFile, audLost' = audLost \cup {audRecorded + 1},
           audEnd' = audEnd \/ (audEnd # "bare" /\ audEnd' \in {"ended", "cut"})
    PROVE  AuditInv'
<1>0. /\ audRecorded' = audRecorded + 1 /\ audPrevHash' = audRecorded + 1
      /\ audEntries' \in Seq(AuditEntry) /\ AuditMemory' /\ audRecorded \in Nat
  BY AuditRemember DEF AuditInv, AuditTypes
<1>1. AuditTypes'
  BY <1>0 DEF AuditInv, AuditTypes
<1>2. \A i \in 1..Len(audFile) : audFile[i].id \in Nat
  BY AuditIds
<1>3. AuditLinked'
  BY <1>0, <1>2 DEF AuditInv, AuditLinked
<1>4. AuditKept'
  <2> SUFFICES ASSUME NEW x \in 1..audRecorded', x \notin audLost', ~AuditOnFile(x)'
               PROVE  Len(audFile') >= AuditWindow' /\ x < audFile'[1].id
    BY DEF AuditKept
  <2>1. x \in 1..audRecorded /\ x \notin audLost /\ ~AuditOnFile(x)
    BY <1>0 DEF AuditOnFile
  <2>2. AuditWindow' = AuditWindow
    BY DEF AuditWindow
  <2> QED
    BY <2>1, <2>2 DEF AuditInv, AuditKept
<1> QED
  BY <1>0, <1>1, <1>3, <1>4 DEF AuditInv

\* An entry that takes the last one with it.
LEMMA AuditSwallows ==
    ASSUME AuditInv, Aud!Remember, audEnd = "bare", audEnd' \in {"ended", "cut"},
           audLost' = audLost \cup {audRecorded + 1, audFile[Len(audFile)].id},
           audFile' = SubSeq(audFile, 1, Len(audFile) - 1)
    PROVE  AuditInv'
<1> DEFINE n == Len(audFile)
<1>0. /\ audRecorded' = audRecorded + 1 /\ audPrevHash' = audRecorded + 1
      /\ audEntries' \in Seq(AuditEntry) /\ AuditMemory' /\ audRecorded \in Nat
  BY AuditRemember DEF AuditInv, AuditTypes
<1>1. n \in Nat \ {0} /\ \A i \in 1..n : audFile[i] \in AuditEntry
  BY LenProperties, ElementOfSeq, EmptySeq DEF AuditInv, AuditTypes
<1>2. audFile' \in Seq(AuditEntry) /\ Len(audFile') = n - 1 /\ \A i \in 1..(n - 1) : audFile'[i] = audFile[i]
  <2>1. \A i \in 1..(n - 1) : audFile[i] \in AuditEntry
    BY <1>1
  <2>2. /\ SubSeq(audFile, 1, n - 1) \in Seq(AuditEntry)
        /\ Len(SubSeq(audFile, 1, n - 1)) = IF 1 <= n - 1 THEN (n - 1) - 1 + 1 ELSE 0
        /\ \A i \in 1..((n - 1) - 1 + 1) : SubSeq(audFile, 1, n - 1)[i] = audFile[1 + i - 1]
    BY <1>1, <2>1, SubSeqProperties
  <2>3. \A i \in 1..(n - 1) : 1 + i - 1 = i
    BY <1>1
  <2>4. Len(SubSeq(audFile, 1, n - 1)) = n - 1 /\ (n - 1) - 1 + 1 = n - 1
    <3> HIDE DEF n
    <3>0. n \in Nat \ {0}
      BY <1>1
    <3>1. n = 1 \/ 1 <= n - 1
      BY <3>0
    <3>2. (n - 1) - 1 + 1 = n - 1 /\ (n = 1 => n - 1 = 0 /\ ~(1 <= n - 1))
      BY <1>1
    <3>3. CASE n = 1
      BY <2>2, <3>2, <3>3
    <3>4. CASE 1 <= n - 1
      BY <2>2, <3>2, <3>4
    <3> QED
      BY <3>1, <3>3, <3>4
  <2>5. \A i \in 1..(n - 1) : SubSeq(audFile, 1, n - 1)[i] = audFile[i]
    BY <2>2, <2>3, <2>4
  <2> QED
    BY <2>2, <2>4, <2>5
<1>3. AuditTypes'
  BY <1>0, <1>2 DEF AuditInv, AuditTypes
<1>4. \A i \in 1..n : audFile[i].id \in Nat /\ audFile[i].id <= audRecorded
  BY <1>1 DEF AuditInv, AuditLinked, AuditEntry
<1>5. AuditLinked'
  <2>1. \A i \in 1..Len(audFile') : audFile'[i].id <= audRecorded'
    BY <1>0, <1>1, <1>2, <1>4
  <2>2. \A i, j \in 1..Len(audFile') : i < j => audFile'[i].id < audFile'[j].id
    BY <1>1, <1>2 DEF AuditInv, AuditLinked
  <2>3. ASSUME NEW i \in 1..(Len(audFile') - 1)
        PROVE  audFile'[i + 1].prev \in {audFile'[i].id} \cup audLost'
    <3>1. i \in 1..(n - 1) /\ i + 1 \in 1..(n - 1) /\ i \in 1..(Len(audFile) - 1)
      BY <1>1, <1>2
    <3>2. audFile'[i] = audFile[i] /\ audFile'[i + 1] = audFile[i + 1]
      BY <1>2, <3>1
    <3> QED
      BY <3>1, <3>2 DEF AuditInv, AuditLinked
  <2>4. audPrevHash' \in audLost'
    BY <1>0
  <2> QED
    BY <2>1, <2>2, <2>3, <2>4 DEF AuditLinked
<1>6. AuditKept'
  <2> SUFFICES ASSUME NEW x \in 1..audRecorded', x \notin audLost', ~AuditOnFile(x)'
               PROVE  Len(audFile') >= AuditWindow' /\ x < audFile'[1].id
    BY DEF AuditKept
  <2>1. x \in 1..audRecorded /\ x \notin audLost /\ x # audFile[n].id
    BY <1>0
  <2>2. ~AuditOnFile(x)
    <3> SUFFICES ASSUME NEW i \in 1..n, audFile[i].id = x PROVE FALSE
      BY DEF AuditOnFile
    <3>1. i \in 1..(n - 1)
      BY <1>1, <2>1
    <3> QED
      BY <1>1, <1>2, <3>1 DEF AuditOnFile
  <2>3. n >= Keep + 1 /\ x < audFile[1].id
    BY <2>1, <2>2 DEF AuditInv, AuditKept, AuditWindow
  <2>4. audFile'[1] = audFile[1] /\ n - 1 >= Keep
    BY <1>1, <1>2, <2>3, AuditConstants
  <2> QED
    BY <1>2, <2>3, <2>4 DEF AuditWindow
<1> QED
  BY <1>0, <1>3, <1>5, <1>6 DEF AuditInv

LEMMA AuditRecords == ASSUME AuditInv, Aud!Record \/ Aud!RecordLost PROVE AuditInv'
<1>1. CASE Aud!Written /\ audEnd' \in {"ended", "bare"}
  BY <1>1, AuditWritten DEF Aud!Record, Aud!RecordLost
<1>2. CASE Aud!Swallowed /\ audEnd' \in {"ended", "cut"}
  BY <1>2, AuditFailed, AuditSwallows DEF Aud!Record, Aud!RecordLost, Aud!Swallowed
<1>3. CASE audLost' = audLost \cup {audRecorded + 1} /\ UNCHANGED audFile
           /\ (audEnd' = audEnd \/ (audEnd = "ended" /\ audEnd' = "cut"))
  BY <1>3, AuditFailed DEF Aud!Record, Aud!RecordLost
<1> QED
  BY <1>1, <1>2, <1>3 DEF Aud!Record, Aud!RecordLost, Aud!fileVars

\* The manager starts with the last entries on file, and its file may be cut down to those.
LEMMA AuditRestart == ASSUME AuditInv, Aud!Restart PROVE AuditInv'
<1> DEFINE kept == Aud!LastOf(audFile, Keep)
           n == Len(audFile)
           d == n - Len(kept)
<1>0. /\ audEntries' = kept /\ audPrevHash' = (IF kept = <<>> THEN 0 ELSE kept[Len(kept)].id)
      /\ UNCHANGED <<audRecorded, audLost>>
      /\ \/ audFile' = kept /\ audEnd' = "ended"
         \/ UNCHANGED <<audFile, audEnd>>
  BY DEF Aud!Restart, Aud!fileVars
<1>1. /\ kept \in Seq(AuditEntry) /\ n \in Nat /\ Len(kept) = IF n <= Keep THEN n ELSE Keep
      /\ \A i \in 1..Len(kept) : d + i \in 1..n /\ kept[i] = audFile[d + i]
  BY AuditLastOf, AuditConstants DEF AuditInv, AuditTypes
<1> HIDE DEF kept
<1>2. Len(kept) \in Nat /\ d \in Nat /\ \A i \in 1..n : audFile[i] \in AuditEntry
  BY <1>1, AuditConstants, ElementOfSeq DEF AuditInv, AuditTypes
<1>3. kept = <<>> <=> audFile = <<>>
  BY <1>1, AuditConstants, EmptySeq DEF AuditInv, AuditTypes
<1>4. kept # <<>> => audPrevHash' = audFile[n].id /\ audPrevHash' = kept[Len(kept)].id /\ n \in 1..n
  <2> SUFFICES ASSUME kept # <<>> PROVE audPrevHash' = audFile[n].id /\ audPrevHash' = kept[Len(kept)].id /\ n \in 1..n
    OBVIOUS
  <2>1. Len(kept) \in 1..Len(kept) /\ d + Len(kept) = n
    BY <1>1, <1>2, EmptySeq
  <2> QED
    BY <1>0, <1>1, <2>1
<1>5. audPrevHash' \in Nat
  BY <1>0, <1>2, <1>4 DEF AuditEntry
<1>6. AuditMemory'
  BY <1>0, <1>4 DEF AuditMemory
<1>7. CASE UNCHANGED <<audFile, audEnd>>
  <2>1. AuditTypes'
    BY <1>0, <1>1, <1>5, <1>7 DEF AuditInv, AuditTypes
  <2>2. AuditLinked'
    BY <1>0, <1>3, <1>4, <1>7 DEF AuditInv, AuditLinked
  <2>3. AuditKept'
    BY <1>0, <1>7 DEF AuditInv, AuditKept, AuditOnFile, AuditWindow
  <2> QED
    BY <1>6, <2>1, <2>2, <2>3 DEF AuditInv
<1>8. CASE audFile' = kept /\ audEnd' = "ended"
  <2>1. AuditTypes'
    BY <1>0, <1>1, <1>5, <1>8 DEF AuditInv, AuditTypes
  <2>2. AuditLinked'
    <3>1. \A i \in 1..Len(kept) : kept[i].id <= audRecorded
      BY <1>1 DEF AuditInv, AuditLinked
    <3>2. ASSUME NEW i \in 1..Len(kept), NEW j \in 1..Len(kept), i < j PROVE kept[i].id < kept[j].id
      <4>1. d + i \in 1..n /\ d + j \in 1..n /\ d + i < d + j
        BY <1>1, <1>2, <3>2
      <4>2. audFile[d + i].id < audFile[d + j].id
        BY <4>1 DEF AuditInv, AuditLinked
      <4> QED
        BY <1>1, <4>2
    <3>3. ASSUME NEW i \in 1..(Len(kept) - 1) PROVE kept[i + 1].prev \in {kept[i].id} \cup audLost
      <4>1. /\ i \in 1..Len(kept) /\ i + 1 \in 1..Len(kept) /\ d + (i + 1) = (d + i) + 1
            /\ d + i \in 1..(n - 1)
        BY <1>1, <1>2
      <4>2. kept[i] = audFile[d + i] /\ kept[i + 1] = audFile[(d + i) + 1]
        BY <1>1, <4>1
      <4>3. \A k \in 1..(Len(audFile) - 1) : audFile[k + 1].prev \in {audFile[k].id} \cup audLost
        BY DEF AuditInv, AuditLinked
      <4> HIDE DEF d
      <4> QED
        BY <4>1, <4>2, <4>3
    <3> QED
      BY <1>0, <1>4, <1>8, <3>1, <3>2, <3>3 DEF AuditLinked
  <2>3. AuditKept'
    <3> SUFFICES ASSUME NEW x \in 1..audRecorded, x \notin audLost, ~AuditOnFile(x)'
                 PROVE  Len(kept) >= Keep /\ x < kept[1].id
      BY <1>0, <1>8 DEF AuditKept, AuditWindow
    <3>0. \A i \in 1..n : audFile[i].id \in Nat
      BY <1>2 DEF AuditEntry
    <3>1. CASE AuditOnFile(x)
      <4>1. PICK i \in 1..n : audFile[i].id = x
        BY <3>1 DEF AuditOnFile
      <4>2. i <= d
        <5> SUFFICES ASSUME i > d PROVE FALSE
          BY <1>2
        <5>1. i - d \in 1..Len(kept) /\ d + (i - d) = i
          BY <1>1, <1>2
        <5>2. kept[i - d].id = x
          BY <1>1, <4>1, <5>1
        <5> QED
          BY <1>8, <5>1, <5>2 DEF AuditOnFile
      <4>3. Len(kept) = Keep /\ 1 \in 1..Len(kept) /\ kept[1] = audFile[d + 1] /\ d + 1 \in 1..n
        <5>1. Len(kept) = Keep /\ Keep >= 1
          BY <1>1, <1>2, <4>2, AuditConstants
        <5>2. 1 \in 1..Len(kept)
          BY <1>1, <5>1, AuditConstants
        <5> QED
          BY <1>1, <5>1, <5>2
      <4>4. audFile[i].id < audFile[d + 1].id
        BY <1>2, <4>2, <4>3 DEF AuditInv, AuditLinked
      <4> QED
        BY <4>1, <4>3, <4>4, AuditConstants
    <3>2. CASE ~AuditOnFile(x)
      <4>1. n >= Keep /\ x < audFile[1].id /\ x \in Nat
        BY <1>1, <3>2, AuditConstants DEF AuditInv, AuditKept, AuditWindow
      <4>2. Len(kept) = Keep /\ 1 \in 1..Len(kept) /\ kept[1] = audFile[d + 1] /\ d + 1 \in 1..n /\ 1 \in 1..n
        <5>1. Len(kept) = Keep /\ Keep >= 1 /\ n >= 1
          BY <1>1, <1>2, <4>1, AuditConstants
        <5>2. 1 \in 1..Len(kept) /\ 1 \in 1..n
          BY <1>1, <5>1, AuditConstants
        <5> QED
          BY <1>1, <5>1, <5>2
      <4>3. audFile[1].id <= audFile[d + 1].id
        <5>1. CASE d = 0
          BY <1>2, <3>0, <4>2, <5>1
        <5>2. CASE d # 0
          <6>1. 1 < d + 1
            BY <1>2, <5>2
          <6>2. audFile[1].id < audFile[d + 1].id
            BY <4>2, <6>1 DEF AuditInv, AuditLinked
          <6>3. audFile[1].id \in Nat /\ audFile[d + 1].id \in Nat
            BY <3>0, <4>2
          <6> HIDE DEF d
          <6> QED
            BY <6>2, <6>3
        <5> QED
          BY <5>1, <5>2
      <4> HIDE DEF d
      <4> QED
        BY <3>0, <4>1, <4>2, <4>3, AuditConstants
    <3> QED
      BY <3>1, <3>2
  <2> QED
    BY <1>6, <2>1, <2>2, <2>3 DEF AuditInv
<1> QED
  BY <1>0, <1>7, <1>8

LEMMA AuditStep == ASSUME AuditInv, Aud!Next \/ UNCHANGED audVars PROVE AuditInv'
<1>1. CASE UNCHANGED audVars
  BY <1>1 DEF audVars, AuditInv, AuditTypes, AuditLinked, AuditKept, AuditOnFile, AuditWindow, AuditMemory
<1> QED
  BY <1>1, AuditRecords, AuditRestart DEF Aud!Next

\* The audit log on file is an unbroken chain of the last entries, but for appends that failed.
THEOREM AuditPart == Spec => []ChainHolds
<1> DEFINE Inv == part = "audit" => AuditInv
<1>1. Init => Inv
  BY AuditInit DEF Init
<1>2. Inv /\ [Next]_vars => Inv'
  BY PartStep, AuditStep
<1>3. Inv => ChainHolds
  BY AuditInvHolds DEF ChainHolds
<1> QED
  BY <1>1, <1>2, <1>3, PTL DEF Spec

(* The types of the audit log: its numbers stay within what was recorded. *)

AuditTyped == AuditInv /\ Aud!TypeOK

LEMMA AuditBounds == Keep \in Nat \ {0} /\ MaxEntries \in Nat
  BY PartsAssumption DEF Aud!KeepAssumption

LEMMA AuditTypedInit == Aud!Init => AuditTyped
  BY AuditInit, AuditBounds DEF Aud!Init, AuditTyped, Aud!TypeOK

\* The entry that is recorded, on file or not, fits.
LEMMA AuditTypedRemember ==
    ASSUME AuditTyped, Aud!Remember
    PROVE  /\ audEntries' \in Seq(Aud!Entry) /\ Len(audEntries') <= Keep
           /\ audPrevHash' \in 0..audRecorded' /\ audRecorded' \in 0..MaxEntries
           /\ audRecorded' = audRecorded + 1 /\ audRecorded \in Nat
           /\ Aud!NextEntry \in Aud!Entry
           /\ \A S : S \subseteq 1..audRecorded' => audLost \cup S \subseteq 1..audRecorded'
<1>1. /\ audRecorded' = audRecorded + 1 /\ audPrevHash' = audRecorded + 1
      /\ audEntries' = Aud!LastOf(Append(audEntries, Aud!NextEntry), Keep)
      /\ audRecorded < MaxEntries /\ audRecorded \in 0..MaxEntries /\ audPrevHash \in 0..audRecorded
  BY DEF Aud!Remember, AuditTyped, Aud!TypeOK
<1>2. Aud!NextEntry \in Aud!Entry
  BY <1>1, AuditBounds DEF Aud!NextEntry, Aud!Entry
<1> DEFINE s == Append(audEntries, Aud!NextEntry)
<1>3. s \in Seq(Aud!Entry)
  BY <1>2, LogAppended DEF AuditTyped, Aud!TypeOK
<1>4. audEntries' = Aud!LastOf(s, Keep)
  BY <1>1
<1> HIDE DEF s
<1>5. audEntries' \in Seq(Aud!Entry) /\ Len(audEntries') <= Keep
  BY <1>3, <1>4, AuditLastOf, AuditBounds
<1>6. audPrevHash' \in 0..audRecorded' /\ audRecorded' \in 0..MaxEntries /\ audRecorded \in Nat
  BY <1>1, AuditBounds
<1>7. \A S : S \subseteq 1..audRecorded' => audLost \cup S \subseteq 1..audRecorded'
  BY <1>1 DEF AuditTyped, Aud!TypeOK
<1> QED
  BY <1>1, <1>2, <1>5, <1>6, <1>7

\* What an append can do to the file and to its last line.
LEMMA AuditTypedFile ==
    ASSUME AuditTyped, Aud!Remember, Aud!Written \/ Aud!Swallowed
    PROVE  /\ audFile' \in Seq(Aud!Entry) /\ audTorn' \in Nat /\ audLost' \subseteq 1..audRecorded'
           /\ Aud!Written => audFile' # <<>> /\ audTorn' = audTorn
           /\ Aud!Swallowed => audTorn' # 0
<1>0. /\ Aud!NextEntry \in Aud!Entry /\ audFile \in Seq(Aud!Entry) /\ audTorn \in Nat
      /\ audRecorded' = audRecorded + 1 /\ audRecorded \in Nat
      /\ \A S : S \subseteq 1..audRecorded' => audLost \cup S \subseteq 1..audRecorded'
  BY AuditTypedRemember DEF AuditTyped, Aud!TypeOK
<1>1. CASE Aud!Written
  <2>1. /\ audFile' = Append(audFile, Aud!NextEntry) /\ audTorn' = audTorn /\ audLost' = audLost
        /\ audEnd = "ended"
    BY <1>1 DEF Aud!Written
  <2>2. audFile' \in Seq(Aud!Entry) /\ audFile' # <<>>
    <3>1. audFile' \in Seq(Aud!Entry) /\ Len(audFile') = Len(audFile) + 1 /\ Len(audFile) \in Nat
      BY <1>0, <2>1, LogAppended
    <3> QED
      BY <3>1, EmptySeq
  <2>3. audLost' \subseteq 1..audRecorded'
    BY <1>0, <2>1
  <2>4. ~Aud!Swallowed
    BY <2>1 DEF Aud!Swallowed
  <2> QED
    BY <1>0, <2>1, <2>2, <2>3, <2>4
<1>2. CASE Aud!Swallowed /\ audEnd = "cut"
  <2>1. audLost' = audLost \cup {audRecorded + 1} /\ audFile' = audFile /\ audTorn' = audTorn
    BY <1>2 DEF Aud!Swallowed
  <2>2. audTorn # 0 /\ ~Aud!Written
    BY <1>2 DEF AuditTyped, Aud!TypeOK, Aud!Written
  <2>3. {audRecorded + 1} \subseteq 1..audRecorded'
    BY <1>0
  <2> QED
    BY <1>0, <2>1, <2>2, <2>3
<1>3. CASE Aud!Swallowed /\ audEnd = "bare"
  <2> DEFINE n == Len(audFile)
  <2>1. /\ audLost' = audLost \cup {audRecorded + 1, audFile[n].id}
        /\ audFile' = SubSeq(audFile, 1, n - 1) /\ audTorn' = audTorn + 1
    BY <1>3 DEF Aud!Swallowed
  <2>2. audFile # <<>> /\ ~Aud!Written
    BY <1>3 DEF AuditTyped, Aud!TypeOK, Aud!Written
  <2>3. n \in Nat \ {0}
    BY <1>0, <2>2, EmptySeq, LenProperties
  <2>4. audFile[n] \in Aud!Entry
    BY <1>0, <2>3, ElementOfSeq
  <2>5. audFile[n].id <= audRecorded
    BY <2>3, AuditIds DEF AuditTyped
  <2>6. {audRecorded + 1, audFile[n].id} \subseteq 1..audRecorded'
    BY <1>0, <2>4, <2>5, AuditBounds DEF Aud!Entry
  <2>7. audFile' \in Seq(Aud!Entry)
    <3>1. \A i \in 1..(n - 1) : audFile[i] \in Aud!Entry
      BY <1>0, <2>3, ElementOfSeq
    <3> HIDE DEF n
    <3> QED
      BY <2>1, <2>3, <3>1, SubSeqProperties
  <2>8. audLost' \subseteq 1..audRecorded'
    <3> HIDE DEF n
    <3> QED
      BY Zenon, <1>0, <2>1, <2>6
  <2>9. audTorn' \in Nat /\ audTorn' # 0
    BY <1>0, <2>1
  <2> QED
    BY Zenon, <2>2, <2>7, <2>8, <2>9
<1> QED
  BY <1>1, <1>2, <1>3 DEF Aud!Swallowed

LEMMA AuditTypedRecords ==
    ASSUME AuditTyped, Aud!Record \/ Aud!RecordLost
    PROVE  Aud!TypeOK'
<1>0. Aud!Remember
  BY DEF Aud!Record, Aud!RecordLost
<1>1. /\ audEntries' \in Seq(Aud!Entry) /\ Len(audEntries') <= Keep
      /\ audPrevHash' \in 0..audRecorded' /\ audRecorded' \in 0..MaxEntries
      /\ audRecorded' = audRecorded + 1 /\ audRecorded \in Nat
      /\ \A S : S \subseteq 1..audRecorded' => audLost \cup S \subseteq 1..audRecorded'
  BY <1>0, AuditTypedRemember
<1>2. Aud!Entry' = Aud!Entry
  BY DEF Aud!Entry
<1>3. CASE (Aud!Written \/ Aud!Swallowed) /\ audEnd' = "ended"
  BY <1>0, <1>1, <1>2, <1>3, AuditTypedFile DEF Aud!TypeOK
<1>4. CASE Aud!Swallowed /\ audEnd' = "cut"
  BY <1>0, <1>1, <1>2, <1>4, AuditTypedFile DEF Aud!TypeOK
<1>5. CASE Aud!Written /\ audEnd' = "bare"
  BY <1>0, <1>1, <1>2, <1>5, AuditTypedFile DEF Aud!TypeOK
<1>6. CASE /\ audLost' = audLost \cup {audRecorded + 1} /\ UNCHANGED audFile
           /\ \/ UNCHANGED <<audTorn, audEnd>>
              \/ audEnd' = "cut" /\ audTorn' = audTorn + 1
  <2>1. audLost' \subseteq 1..audRecorded'
    <3>1. {audRecorded + 1} \subseteq 1..audRecorded'
      BY <1>1
    <3> QED
      BY <1>1, <1>6, <3>1
  <2>2. /\ audTorn' \in Nat /\ audEnd' \in {"ended", "cut", "bare"}
        /\ audEnd' = "cut" => audTorn' # 0
        /\ audEnd' = "bare" => audFile' # <<>>
    BY <1>6 DEF AuditTyped, Aud!TypeOK
  <2> QED
    BY <1>1, <1>2, <1>6, <2>1, <2>2 DEF AuditTyped, Aud!TypeOK
<1> QED
  BY <1>3, <1>4, <1>5, <1>6 DEF Aud!Record, Aud!RecordLost, Aud!fileVars

\* load keeps the last entries, and goes on from the number of the last one.
LEMMA AuditTypedRestart == ASSUME AuditTyped, Aud!Restart PROVE Aud!TypeOK'
<1> DEFINE kept == Aud!LastOf(audFile, Keep)
<1>0. audFile \in Seq(Aud!Entry) /\ audRecorded \in Nat
  BY AuditBounds DEF AuditTyped, Aud!TypeOK
<1>1. /\ kept \in Seq(Aud!Entry) /\ Len(audFile) \in Nat
      /\ Len(kept) = IF Len(audFile) <= Keep THEN Len(audFile) ELSE Keep
      /\ \A i \in 1..Len(kept) :
           /\ Len(audFile) - Len(kept) + i \in 1..Len(audFile)
           /\ kept[i] = audFile[Len(audFile) - Len(kept) + i]
  BY <1>0, AuditLastOf, AuditBounds
<1>2. /\ audEntries' = kept /\ audRecorded' = audRecorded /\ audLost' = audLost
      /\ audPrevHash' = IF kept = <<>> THEN 0 ELSE kept[Len(kept)].id
      /\ \/ audFile' = kept /\ audTorn' = 0 /\ audEnd' = "ended"
         \/ UNCHANGED <<audFile, audTorn, audEnd>>
  BY DEF Aud!Restart, Aud!fileVars
<1> HIDE DEF kept
<1>3. Len(kept) \in Nat /\ Len(kept) <= Keep
  BY <1>1, AuditBounds
<1>4. audPrevHash' \in 0..audRecorded'
  <2>1. CASE kept = <<>>
    BY <1>0, <1>2, <2>1
  <2>2. CASE kept # <<>>
    <3> DEFINE k == Len(audFile) - Len(kept) + Len(kept)
    <3>1. Len(kept) \in 1..Len(kept)
      BY <1>1, <1>3, <2>2, EmptySeq
    <3>2. k \in 1..Len(audFile) /\ kept[Len(kept)] = audFile[k]
      BY <1>1, <3>1
    <3> HIDE DEF k
    <3>3. audFile[k].id \in Nat /\ audFile[k].id <= audRecorded
      BY <3>2, AuditIds DEF AuditTyped
    <3> QED
      BY <1>0, <1>2, <2>2, <3>2, <3>3
  <2> QED
    BY <2>1, <2>2
<1>5. Aud!Entry' = Aud!Entry
  BY DEF Aud!Entry
<1>6. /\ audFile' \in Seq(Aud!Entry) /\ audTorn' \in Nat /\ audEnd' \in {"ended", "cut", "bare"}
      /\ audEnd' = "cut" => audTorn' # 0
      /\ audEnd' = "bare" => audFile' # <<>>
  BY <1>1, <1>2 DEF AuditTyped, Aud!TypeOK
<1> QED
  BY <1>1, <1>2, <1>3, <1>4, <1>5, <1>6 DEF AuditTyped, Aud!TypeOK

LEMMA AuditTypedStep == ASSUME AuditTyped, Aud!Next \/ UNCHANGED audVars PROVE AuditTyped'
<1>1. AuditInv'
  BY AuditStep DEF AuditTyped
<1>2. CASE UNCHANGED audVars
  BY <1>1, <1>2 DEF audVars, AuditTyped, Aud!TypeOK, Aud!Entry
<1> QED
  BY <1>1, <1>2, AuditTypedRecords, AuditTypedRestart DEF Aud!Next, AuditTyped

-----------------------------------------------------------------------------
(* The certificate files. *)

CertDone(p) == cerFile[p].crt \in Cer!Certificates /\ cerFile[p].key \in Cer!Keys
CertBackups == [Cer!Exported -> [crt : Cer!Certificates, key : Cer!Keys]]
CertParts == Cer!Exported \X {"crt", "key"}

\* The start has come past a pair.
CertPast(p) ==
    \/ p = "ca" /\ cerStage \in {"server", "client", "running"}
    \/ p = "server" /\ cerStage \in {"client", "running"}
    \/ p = "client" /\ cerStage = "running"

\* No import is half done, of what can be told.
CertSettled == "cut" \notin cerDoubt \/ "imported" \in cerDoubt

CertTypes ==
    /\ Cer!TypeOK /\ DOMAIN cerFile = Cer!Pairs
    /\ cerBackup = None \/ cerBackup \in CertBackups
    /\ cerImport \subseteq CertParts

\* Files appear in the order of the start, a certificate before its key.
CertOrder ==
    /\ \A p \in Cer!Pairs : cerFile[p].key # None => cerFile[p].crt # None
    /\ \A p \in Cer!Pairs : CertPast(p) => CertDone(p)

\* What is in memory of a pair while it is written, and what is written of it.
CertWriting ==
    \A p \in Cer!Pairs : cerStage = p /\ cerWriting # None =>
        /\ cerFresh \in Cer!Keys /\ cerLoaded[p].crt = cerFresh /\ cerLoaded[p].key = cerFresh
        /\ cerLoaded[p].by \in Cer!Keys /\ (p # "ca" => cerLoaded[p].by = cerLoaded["ca"].key)
        /\ cerWriting = "crt" => cerFile[p].crt = Torn /\ cerFile[p].key = None
        /\ cerWriting = "key" => /\ cerFile[p].crt = [of |-> cerFresh, by |-> cerLoaded[p].by]
                                 /\ cerFile[p].key \in {None, Torn}

\* An import has written what it has not still to write.
CertImporting ==
    /\ cerStage = "stopped" => cerWriting = None
    /\ cerStage = "running" => cerWriting = None /\ cerPinned # None
    /\ "imported" \in cerDoubt => cerStage \in {"running", "stopped"}
    /\ cerImport # {} =>
         /\ cerStage = "running" /\ cerBackup # None /\ ~CertSettled
         /\ \A f \in CertParts \ cerImport : cerFile[f[1]][f[2]] = cerBackup[f[1]][f[2]]

\* A leaf is signed by the CA, which was there before it.
CertSigned(p) ==
    /\ cerFile[p].crt # None => CertDone("ca")
    /\ cerFile[p].crt \in Cer!Certificates => cerFile[p].crt.by = cerFile["ca"].crt.of

CertFiled ==
    /\ CertSettled /\ CertDone("ca") => cerFile["ca"].crt.of = cerFile["ca"].key
    /\ CertSettled /\ "lost" \notin cerDoubt => CertSigned("server")
    /\ cerDoubt = {} => CertSigned("client")
    /\ cerDoubt = {} /\ cerPinned # None => CertDone("ca") /\ cerFile["ca"].crt.of = cerPinned

CertLoaded ==
    /\ \A p \in {"server", "client"} : CertPast(p) => cerLoaded[p].crt = cerLoaded[p].key
    /\ "cut" \notin cerDoubt /\ CertPast("ca") =>
         cerLoaded["ca"].crt = cerFile["ca"].crt.of /\ cerLoaded["ca"].key = cerFile["ca"].key
    /\ {"cut", "lost"} \cap cerDoubt = {} /\ CertPast("server") =>
         cerLoaded["server"].by = cerLoaded["ca"].crt
    /\ cerDoubt = {} /\ CertPast("client") => cerLoaded["client"].by = cerLoaded["ca"].crt
    /\ \A p \in Cer!Pairs : CertPast(p) => cerLoaded[p] \in [crt : Cer!Keys, by : Cer!Keys, key : Cer!Keys]

CertInv == CertTypes /\ CertOrder /\ CertWriting /\ CertImporting /\ CertFiled /\ CertLoaded

LEMMA CertConstants ==
    /\ MaxKeys \in Nat /\ None # Torn /\ None \notin {"crt", "key"}
    /\ \A k \in Nat : None # k /\ Torn # k
    /\ \A c \in [of : Nat, by : Nat] : None # c /\ Torn # c
  BY PartsAssumption DEF Cer!CertsAssumption

LEMMA CertPairs ==
    /\ Cer!Pairs = {"ca", "server", "client"}
    /\ Cer!Order["ca"] = "server" /\ Cer!Order["server"] = "client" /\ Cer!Order["client"] = "running"
  BY DEF Cer!Pairs, Cer!Order

LEMMA CertKinds ==
    /\ Cer!Keys \subseteq Nat /\ Cer!Certificates \subseteq [of : Nat, by : Nat]
    /\ None \notin Cer!Keys \cup Cer!Certificates /\ Torn \notin Cer!Keys \cup Cer!Certificates
    /\ \A c \in Cer!Certificates : c.of \in Cer!Keys /\ c.by \in Cer!Keys
    /\ \A k, m \in Cer!Keys : [of |-> k, by |-> m] \in Cer!Certificates
  BY CertConstants DEF Cer!Keys, Cer!Certificates

LEMMA CertInit == Cer!Init => CertInv
<1> SUFFICES ASSUME Cer!Init PROVE CertInv
  OBVIOUS
<1> USE CertConstants, CertPairs, CertKinds
<1>1. CertTypes
  BY DEF Cer!Init, CertTypes, Cer!TypeOK, Cer!NoFiles, Cer!NoPair
<1>2. \A p \in Cer!Pairs : cerFile[p].crt = None /\ cerFile[p].key = None
  BY DEF Cer!Init, Cer!NoFiles
<1>3. CertOrder /\ CertWriting /\ CertImporting
  BY <1>2 DEF Cer!Init, CertOrder, CertWriting, CertImporting, CertPast
<1>4. CertFiled /\ CertLoaded
  BY <1>2 DEF Cer!Init, CertFiled, CertLoaded, CertPast, CertSigned, CertDone
<1> QED
  BY <1>1, <1>3, <1>4 DEF CertInv

LEMMA CertInvHolds == CertInv => Cer!TypeOK /\ Cer!IdentityHolds
<1> SUFFICES ASSUME CertInv, cerStage = "running"
             PROVE  /\ \A p \in Cer!Pairs : cerLoaded[p].crt = cerLoaded[p].key \/ (p = "ca" /\ "cut" \in cerDoubt)
                    /\ {"cut", "lost"} \cap cerDoubt = {} => cerLoaded["server"].by = cerLoaded["ca"].crt
                    /\ cerDoubt = {} => cerLoaded["client"].by = cerLoaded["ca"].crt /\ cerLoaded["ca"].crt = cerPinned
  BY DEF Cer!IdentityHolds, CertInv, CertTypes
<1>1. \A p \in Cer!Pairs : CertPast(p) /\ CertDone(p)
  BY CertPairs DEF CertInv, CertOrder, CertPast
<1>2. "cut" \notin cerDoubt => cerLoaded["ca"].crt = cerLoaded["ca"].key
  BY <1>1, CertPairs DEF CertInv, CertLoaded, CertFiled, CertSettled
<1> QED
  BY <1>1, <1>2, CertPairs DEF CertInv, CertLoaded, CertFiled, CertImporting

\* What a write does to the files.
LEMMA CertPut ==
    ASSUME CertTypes, NEW p \in Cer!Pairs, NEW content
    PROVE  /\ Cer!Put(p, "crt", content) /\ content \in Cer!Certificates \cup {None, Torn} =>
                /\ cerFile' \in [Cer!Pairs -> [crt : Cer!Certificates \cup {None, Torn}, key : Cer!Keys \cup {None, Torn}]]
                /\ cerFile'[p].crt = content /\ cerFile'[p].key = cerFile[p].key
                /\ \A q \in Cer!Pairs : q # p => cerFile'[q] = cerFile[q]
           /\ Cer!Put(p, "key", content) /\ content \in Cer!Keys \cup {None, Torn} =>
                /\ cerFile' \in [Cer!Pairs -> [crt : Cer!Certificates \cup {None, Torn}, key : Cer!Keys \cup {None, Torn}]]
                /\ cerFile'[p].key = content /\ cerFile'[p].crt = cerFile[p].crt
                /\ \A q \in Cer!Pairs : q # p => cerFile'[q] = cerFile[q]
<1>1. cerFile \in [Cer!Pairs -> [crt : Cer!Certificates \cup {None, Torn}, key : Cer!Keys \cup {None, Torn}]]
  BY DEF CertTypes, Cer!TypeOK
<1> HIDE DEF CertTypes
<1>2. ASSUME Cer!Put(p, "crt", content), content \in Cer!Certificates \cup {None, Torn}
      PROVE /\ cerFile' \in [Cer!Pairs -> [crt : Cer!Certificates \cup {None, Torn}, key : Cer!Keys \cup {None, Torn}]]
            /\ cerFile'[p].crt = content /\ cerFile'[p].key = cerFile[p].key
            /\ \A q \in Cer!Pairs : q # p => cerFile'[q] = cerFile[q]
  BY <1>1, <1>2 DEF Cer!Put
<1>3. ASSUME Cer!Put(p, "key", content), content \in Cer!Keys \cup {None, Torn}
      PROVE /\ cerFile' \in [Cer!Pairs -> [crt : Cer!Certificates \cup {None, Torn}, key : Cer!Keys \cup {None, Torn}]]
            /\ cerFile'[p].key = content /\ cerFile'[p].crt = cerFile[p].crt
            /\ \A q \in Cer!Pairs : q # p => cerFile'[q] = cerFile[q]
  BY <1>1, <1>3 DEF Cer!Put
<1> QED
  BY <1>2, <1>3
\* The facts about the constants that every step needs.
LEMMA CertFacts ==
    /\ Cer!Pairs = {"ca", "server", "client"} /\ Cer!Exported = {"ca", "server"}
    /\ Cer!Order["ca"] = "server" /\ Cer!Order["server"] = "client" /\ Cer!Order["client"] = "running"
    /\ None # Torn /\ None \notin {"crt", "key"}
    /\ None \notin Cer!Keys \cup Cer!Certificates /\ Torn \notin Cer!Keys \cup Cer!Certificates
    /\ \A c \in Cer!Certificates : c.of \in Cer!Keys /\ c.by \in Cer!Keys
  BY CertPairs, CertConstants, CertKinds DEF Cer!Exported

LEMMA CertStart == ASSUME CertInv, Cer!Start PROVE CertInv'
<1> USE CertFacts DEF Cer!Start
<1>1. CertTypes'
  BY DEF CertInv, CertTypes, Cer!TypeOK
<1>2. CertOrder'
  BY DEF CertInv, CertOrder, CertPast, CertDone
<1>3. CertWriting'
  BY DEF CertInv, CertWriting, CertImporting
<1>4. CertImporting'
  BY DEF CertInv, CertImporting, CertSettled
<1>5. CertFiled'
  BY DEF CertInv, CertFiled, CertSettled, CertSigned, CertDone
<1>6. CertLoaded'
  BY DEF CertLoaded, CertPast
<1> QED
  BY <1>1, <1>2, <1>3, <1>4, <1>5, <1>6 DEF CertInv

LEMMA CertRefuse == ASSUME CertInv, NEW p \in Cer!Pairs, Cer!Refuse(p) PROVE CertInv'
<1> USE CertFacts DEF Cer!Refuse
<1>1. CertTypes'
  BY DEF CertInv, CertTypes, Cer!TypeOK
<1>2. CertOrder'
  BY DEF CertInv, CertOrder, CertPast, CertDone
<1>3. CertWriting'
  BY DEF CertInv, CertWriting
<1>4. CertImporting'
  BY DEF CertInv, CertImporting, CertSettled
<1>5. CertFiled'
  BY DEF CertInv, CertFiled, CertSettled, CertSigned, CertDone
<1>6. CertLoaded'
  BY DEF CertLoaded, CertPast
<1> QED
  BY <1>1, <1>2, <1>3, <1>4, <1>5, <1>6 DEF CertInv

LEMMA CertExport == ASSUME CertInv, Cer!Export PROVE CertInv'
<1> USE CertFacts DEF Cer!Export
<1>1. CertTypes'
  <2>1. \A p \in Cer!Exported : CertDone(p) /\ cerFile[p] \in [crt : Cer!Certificates, key : Cer!Keys]
    BY DEF CertInv, CertOrder, CertPast, CertDone, CertTypes, Cer!TypeOK
  <2>2. cerBackup' \in CertBackups
    BY <2>1 DEF CertBackups
  <2> QED
    BY <2>2 DEF CertInv, CertTypes, Cer!TypeOK
<1>2. CertOrder'
  BY DEF CertInv, CertOrder, CertPast, CertDone
<1>3. CertWriting'
  BY DEF CertInv, CertWriting
<1>4. CertImporting'
  BY DEF CertInv, CertImporting, CertSettled
<1>5. CertFiled'
  BY DEF CertInv, CertFiled, CertSettled, CertSigned, CertDone
<1>6. CertLoaded'
  BY DEF CertInv, CertLoaded, CertPast
<1> QED
  BY <1>1, <1>2, <1>3, <1>4, <1>5, <1>6 DEF CertInv

LEMMA CertBeginImport == ASSUME CertInv, Cer!BeginImport PROVE CertInv'
<1> USE CertFacts DEF Cer!BeginImport
<1>0. cerBackup \in CertBackups /\ cerImport' = CertParts
  <2>1. cerBackup \in CertBackups
    BY DEF CertInv, CertTypes
  <2>2. \A f \in CertParts : cerBackup[f[1]][f[2]] # None
    BY <2>1 DEF CertParts, CertBackups
  <2>3. DOMAIN cerBackup = Cer!Exported
    BY <2>1 DEF CertBackups
  <2> QED
    BY <2>1, <2>2, <2>3 DEF CertParts
<1>1. CertTypes'
  BY <1>0 DEF CertInv, CertTypes, Cer!TypeOK, CertParts
<1>2. CertOrder'
  BY DEF CertInv, CertOrder, CertPast, CertDone
<1>3. CertWriting'
  BY DEF CertInv, CertWriting
<1>4. CertImporting'
  BY <1>0 DEF CertInv, CertImporting, CertSettled
<1>5. CertFiled'
  BY DEF CertFiled, CertSettled
<1>6. CertLoaded'
  BY DEF CertInv, CertLoaded, CertPast
<1> QED
  BY <1>1, <1>2, <1>3, <1>4, <1>5, <1>6 DEF CertInv

LEMMA CertStop == ASSUME CertInv, Cer!Stop PROVE CertInv'
<1> USE CertFacts DEF Cer!Stop
<1>1. \/ UNCHANGED cerFile
      \/ \E f \in cerImport : Cer!Put(f[1], f[2], Torn) /\ f[1] \in Cer!Pairs /\ f[2] \in {"crt", "key"}
  BY DEF CertInv, CertTypes, CertParts
<1>2. /\ cerFile' \in [Cer!Pairs -> [crt : Cer!Certificates \cup {None, Torn}, key : Cer!Keys \cup {None, Torn}]]
      /\ cerFile' = cerFile \/ cerImport # {}
      /\ \A p \in Cer!Pairs : cerFile'[p].key # None => cerFile'[p].crt # None
  <2>1. CASE UNCHANGED cerFile
    BY <2>1 DEF CertInv, CertTypes, CertOrder, Cer!TypeOK
  <2>2. CASE ~UNCHANGED cerFile
    <3>1. PICK f \in cerImport : Cer!Put(f[1], f[2], Torn) /\ f[1] \in Cer!Pairs /\ f[2] \in {"crt", "key"}
      BY <1>1, <2>2
    <3>2. \A p \in Cer!Pairs : cerFile[p].crt # None
      BY DEF CertInv, CertImporting, CertOrder, CertPast, CertDone
    <3>3. CASE f[2] = "crt"
      BY <3>1, <3>2, <3>3, CertPut DEF CertInv
    <3>4. CASE f[2] = "key"
      BY <3>1, <3>2, <3>4, CertPut DEF CertInv
    <3> QED
      BY <3>1, <3>3, <3>4
  <2> QED
    BY <2>1, <2>2
<1>3. CertTypes'
  BY <1>2 DEF CertInv, CertTypes, Cer!TypeOK
<1>4. CertOrder'
  BY <1>2 DEF CertOrder, CertPast
<1>5. CertWriting' /\ CertImporting'
  BY DEF CertWriting, CertInv, CertImporting, CertSettled
<1>6. CertFiled'
  BY <1>2 DEF CertInv, CertFiled, CertImporting, CertSettled, CertSigned, CertDone
<1>7. CertLoaded'
  BY DEF CertLoaded, CertPast
<1> QED
  BY <1>3, <1>4, <1>5, <1>6, <1>7 DEF CertInv
LEMMA CertLoseKey == ASSUME CertInv, NEW p \in Cer!Pairs, Cer!LoseKey(p) PROVE CertInv'
<1> USE CertFacts DEF Cer!LoseKey
<1>0. /\ cerFile' \in [Cer!Pairs -> [crt : Cer!Certificates \cup {None, Torn}, key : Cer!Keys \cup {None, Torn}]]
      /\ cerFile'[p].key = None /\ cerFile'[p].crt = cerFile[p].crt
      /\ \A q \in Cer!Pairs : q # p => cerFile'[q] = cerFile[q]
  BY CertPut DEF CertInv
<1>1. CertTypes'
  BY <1>0 DEF CertInv, CertTypes, Cer!TypeOK
<1>2. CertOrder'
  BY <1>0 DEF CertInv, CertOrder, CertPast
<1>3. CertWriting' /\ CertImporting'
  BY DEF CertInv, CertWriting, CertImporting, CertSettled
<1>4. CertFiled'
  <2>1. CertDone("ca")' => CertDone("ca") /\ cerFile'["ca"] = cerFile["ca"]
    BY <1>0 DEF CertDone
  <2> QED
    BY <2>1 DEF CertInv, CertFiled, CertSettled
<1>5. CertLoaded'
  BY DEF CertLoaded, CertPast
<1> QED
  BY <1>1, <1>2, <1>3, <1>4, <1>5 DEF CertInv

LEMMA CertReinstall == ASSUME CertInv, Cer!Reinstall PROVE CertInv'
<1> USE CertFacts DEF Cer!Reinstall
<1>0. \A p \in Cer!Pairs : cerFile'[p].crt = None /\ cerFile'[p].key = None
  BY DEF Cer!NoFiles
<1>1. CertTypes'
  BY DEF CertInv, CertTypes, Cer!TypeOK, Cer!NoFiles
<1>2. CertOrder'
  BY <1>0 DEF CertInv, CertOrder, CertPast
<1>3. CertWriting' /\ CertImporting'
  BY DEF CertInv, CertWriting, CertImporting, CertSettled
<1>4. CertFiled'
  BY <1>0 DEF CertFiled, CertSigned, CertDone
<1>5. CertLoaded'
  BY DEF CertLoaded, CertPast
<1> QED
  BY <1>1, <1>2, <1>3, <1>4, <1>5 DEF CertInv

LEMMA CertImportOne == ASSUME CertInv, NEW f \in cerImport, Cer!ImportOne(f) PROVE CertInv'
<1> USE CertFacts DEF Cer!ImportOne
<1>0. /\ f[1] \in Cer!Exported /\ f[2] \in {"crt", "key"} /\ f = <<f[1], f[2]>>
      /\ cerStage = "running" /\ cerBackup \in CertBackups /\ ~CertSettled
  BY DEF CertInv, CertTypes, CertParts, CertImporting
<1>1. /\ cerFile' \in [Cer!Pairs -> [crt : Cer!Certificates \cup {None, Torn}, key : Cer!Keys \cup {None, Torn}]]
      /\ cerFile'[f[1]][f[2]] = cerBackup[f[1]][f[2]]
      /\ \A g \in CertParts : g # f => cerFile'[g[1]][g[2]] = cerFile[g[1]][g[2]]
      /\ cerFile'["client"] = cerFile["client"]
  <2>1. CASE f[2] = "crt"
    <3>1. cerBackup[f[1]].crt \in Cer!Certificates
      BY <1>0 DEF CertBackups
    <3>2. /\ cerFile' \in [Cer!Pairs -> [crt : Cer!Certificates \cup {None, Torn}, key : Cer!Keys \cup {None, Torn}]]
          /\ cerFile'[f[1]].crt = cerBackup[f[1]].crt /\ cerFile'[f[1]].key = cerFile[f[1]].key
          /\ \A q \in Cer!Pairs : q # f[1] => cerFile'[q] = cerFile[q]
      BY <1>0, <2>1, <3>1, CertPut DEF CertInv
    <3> QED
      BY <1>0, <2>1, <3>2 DEF CertParts
  <2>2. CASE f[2] = "key"
    <3>1. cerBackup[f[1]].key \in Cer!Keys
      BY <1>0 DEF CertBackups
    <3>2. /\ cerFile' \in [Cer!Pairs -> [crt : Cer!Certificates \cup {None, Torn}, key : Cer!Keys \cup {None, Torn}]]
          /\ cerFile'[f[1]].key = cerBackup[f[1]].key /\ cerFile'[f[1]].crt = cerFile[f[1]].crt
          /\ \A q \in Cer!Pairs : q # f[1] => cerFile'[q] = cerFile[q]
      BY <1>0, <2>2, <3>1, CertPut DEF CertInv
    <3> QED
      BY <1>0, <2>2, <3>2 DEF CertParts
  <2> QED
    BY <1>0, <2>1, <2>2
<1>2. CertTypes'
  BY <1>1 DEF CertInv, CertTypes, Cer!TypeOK
<1>3. \A p \in Cer!Pairs : CertDone(p)'
  <2>1. \A p \in Cer!Pairs : CertDone(p)
    BY <1>0 DEF CertInv, CertOrder, CertPast
  <2>2. \A p \in Cer!Exported : /\ cerFile'[p].crt \in {cerFile[p].crt, cerBackup[p].crt}
                                /\ cerFile'[p].key \in {cerFile[p].key, cerBackup[p].key}
    <3> SUFFICES ASSUME NEW p \in Cer!Exported, NEW x \in {"crt", "key"}
                 PROVE  cerFile'[p][x] \in {cerFile[p][x], cerBackup[p][x]}
      OBVIOUS
    <3>1. <<p, x>> \in CertParts
      BY DEF CertParts
    <3> QED
      BY <1>1, <3>1, <1>0
  <2>3. \A p \in Cer!Exported : cerBackup[p].crt \in Cer!Certificates /\ cerBackup[p].key \in Cer!Keys
    BY <1>0 DEF CertBackups
  <2> QED
    BY <1>0, <1>1, <2>1, <2>2, <2>3 DEF CertDone
<1>4. CertOrder'
  BY <1>3 DEF CertOrder, CertDone
<1>5. CertWriting'
  BY <1>0 DEF CertInv, CertWriting
<1>6. \A g \in CertParts \ cerImport' : cerFile'[g[1]][g[2]] = cerBackup'[g[1]][g[2]]
  BY <1>0, <1>1 DEF CertInv, CertImporting
<1>7. CertImporting'
  BY <1>0, <1>6 DEF CertInv, CertImporting, CertSettled
<1>8. CertFiled'
  <2>1. CASE CertSettled'
    <3>1. cerImport = {f} /\ Cer!Whole /\ cerDoubt' # {}
      BY <1>0, <2>1 DEF CertSettled
    <3>2. cerFile'["ca"].crt = cerBackup["ca"].crt /\ cerFile'["ca"].key = cerBackup["ca"].key
          /\ cerFile'["server"].crt = cerBackup["server"].crt
      <4>1. \A g \in {<<"ca", "crt">>, <<"ca", "key">>, <<"server", "crt">>} : g \in CertParts \ cerImport'
        BY <3>1 DEF CertParts
      <4> QED
        BY <1>6, <4>1
    <3> QED
      BY <1>3, <3>1, <3>2 DEF CertFiled, CertSigned, Cer!Whole
  <2>2. CASE ~CertSettled'
    BY <2>2 DEF CertFiled, CertSettled
  <2> QED
    BY <2>1, <2>2
<1>9. CertLoaded'
  BY <1>0 DEF CertInv, CertLoaded, CertPast, CertSettled
<1> QED
  BY <1>2, <1>4, <1>5, <1>7, <1>8, <1>9 DEF CertInv

LEMMA CertLoad == ASSUME CertInv, NEW p \in Cer!Pairs, Cer!Load(p) PROVE CertInv'
<1> USE CertFacts DEF Cer!Load, Cer!Advance
<1>0. /\ cerFile[p].crt \in Cer!Certificates /\ cerFile[p].key \in Cer!Keys
      /\ p # "ca" => cerFile[p].crt.of = cerFile[p].key
  BY DEF CertInv, CertTypes, Cer!TypeOK, Cer!Readable, Cer!Broken
<1>1. /\ cerLoaded'[p] = [crt |-> cerFile[p].crt.of, by |-> cerFile[p].crt.by, key |-> cerFile[p].key]
      /\ cerLoaded'[p] \in [crt : Cer!Keys, by : Cer!Keys, key : Cer!Keys]
      /\ \A q \in Cer!Pairs : q # p => cerLoaded'[q] = cerLoaded[q]
  BY <1>0 DEF CertInv, CertTypes, Cer!TypeOK
<1>8. cerLoaded' \in [Cer!Pairs -> [crt : Cer!Keys, by : Cer!Keys, key : Cer!Keys] \cup {Cer!NoPair}]
  BY <1>1 DEF CertInv, CertTypes, Cer!TypeOK
<1>9. cerPinned' \in Cer!Keys \cup {None} /\ cerStage' \in Cer!Pairs \cup {"stopped", "running"}
  BY DEF CertInv, CertTypes, CertLoaded, CertPast, Cer!TypeOK
<1>2. CertTypes'
  BY <1>8, <1>9 DEF CertInv, CertTypes, Cer!TypeOK
<1>3. CertOrder'
  BY <1>0 DEF CertInv, CertOrder, CertPast, CertDone
<1>4. CertWriting'
  BY DEF CertInv, CertWriting
<1>5. CertImporting'
  BY <1>0, <1>1 DEF CertInv, CertImporting, CertSettled, CertLoaded, CertPast
<1>6. CertFiled'
  BY <1>0, <1>1 DEF CertInv, CertFiled, CertSettled, CertSigned, CertDone, CertLoaded, CertPast, CertOrder
<1>7. CertLoaded'
  BY <1>0, <1>1 DEF CertInv, CertLoaded, CertPast, CertFiled, CertSigned, CertSettled, CertDone, CertOrder
<1> QED
  BY <1>2, <1>3, <1>4, <1>5, <1>6, <1>7 DEF CertInv
LEMMA CertGenerate == ASSUME CertInv, NEW p \in Cer!Pairs, Cer!Generate(p) PROVE CertInv'
<1> USE CertFacts DEF Cer!Generate
<1> DEFINE k == cerFresh + 1
           by == IF p = "ca" THEN k ELSE cerLoaded["ca"].key
<1>0. k \in Cer!Keys /\ by \in Cer!Keys /\ cerImport = {} /\ cerWriting = None
  <2>1. p # "ca" => cerLoaded["ca"].key \in Cer!Keys
    BY DEF CertInv, CertLoaded, CertPast
  <2>2. k \in Cer!Keys
    BY CertConstants DEF CertInv, CertTypes, Cer!TypeOK, Cer!Keys
  <2> QED
    BY <2>1, <2>2 DEF CertInv, CertImporting
<1>1. /\ cerLoaded'[p] = [crt |-> k, by |-> by, key |-> k]
      /\ cerLoaded'[p] \in [crt : Cer!Keys, by : Cer!Keys, key : Cer!Keys]
      /\ \A q \in Cer!Pairs : q # p => cerLoaded'[q] = cerLoaded[q]
  <2> HIDE DEF k
  <2> QED
    BY <1>0 DEF CertInv, CertTypes, Cer!TypeOK, k
<1>2. /\ cerFile' \in [Cer!Pairs -> [crt : Cer!Certificates \cup {None, Torn}, key : Cer!Keys \cup {None, Torn}]]
      /\ cerFile'[p].crt = Torn /\ cerFile'[p].key = cerFile[p].key
      /\ \A q \in Cer!Pairs : q # p => cerFile'[q] = cerFile[q]
  BY CertPut DEF CertInv
<1>3. cerFile[p].key = None
  BY DEF CertInv, CertOrder, Cer!Readable
<1> HIDE DEF k, by
<1>4. CertTypes'
  <2>1. cerLoaded' \in [Cer!Pairs -> [crt : Cer!Keys, by : Cer!Keys, key : Cer!Keys] \cup {Cer!NoPair}]
    BY <1>1 DEF CertInv, CertTypes, Cer!TypeOK
  <2>2. cerFresh' \in 0..MaxKeys
    BY <1>0 DEF k, Cer!Keys
  <2> QED
    BY <1>2, <2>1, <2>2 DEF CertInv, CertTypes, Cer!TypeOK
<1>5. CertOrder'
  BY <1>2, <1>3 DEF CertInv, CertOrder, CertPast, CertDone
<1>6. CertWriting'
  <2>1. p # "ca" => by = cerLoaded["ca"].key /\ cerLoaded'["ca"] = cerLoaded["ca"]
    BY <1>1 DEF by
  <2>2. cerFresh' = k /\ cerWriting' = "crt" /\ cerStage' = p
    BY DEF k
  <2> QED
    BY <1>0, <1>1, <1>2, <1>3, <2>1, <2>2 DEF CertWriting
<1>7. CertImporting'
  BY <1>0 DEF CertInv, CertImporting, CertSettled
<1>8. CertFiled'
  BY <1>2, <1>3 DEF CertInv, CertFiled, CertSettled, CertSigned, CertDone, CertOrder, CertPast, CertImporting
<1>9. CertLoaded'
  BY <1>1, <1>2 DEF CertInv, CertLoaded, CertPast
<1> QED
  BY <1>4, <1>5, <1>6, <1>7, <1>8, <1>9 DEF CertInv

LEMMA CertWriteCrt == ASSUME CertInv, NEW p \in Cer!Pairs, Cer!WriteCrt(p) PROVE CertInv'
<1> USE CertFacts DEF Cer!WriteCrt
<1>0. /\ cerFresh \in Cer!Keys /\ cerLoaded[p].by \in Cer!Keys
      /\ cerFile[p].key = None /\ cerImport = {} /\ cerWriting # None
      /\ cerLoaded[p].crt = cerFresh /\ cerLoaded[p].key = cerFresh
      /\ p # "ca" => cerLoaded[p].by = cerLoaded["ca"].key
  BY DEF CertInv, CertWriting, CertImporting
<1> DEFINE c == [of |-> cerFresh, by |-> cerLoaded[p].by]
<1>1. c \in Cer!Certificates /\ c.by = cerLoaded[p].by
  BY <1>0 DEF Cer!Certificates
<1> HIDE DEF c
<1>2. /\ cerFile' \in [Cer!Pairs -> [crt : Cer!Certificates \cup {None, Torn}, key : Cer!Keys \cup {None, Torn}]]
      /\ cerFile'[p].crt = c /\ cerFile'[p].key = cerFile[p].key
      /\ \A q \in Cer!Pairs : q # p => cerFile'[q] = cerFile[q]
  BY <1>1, CertPut DEF CertInv, c
<1>3. CertTypes'
  BY <1>2 DEF CertInv, CertTypes, Cer!TypeOK
<1>4. CertOrder'
  BY <1>0, <1>1, <1>2 DEF CertInv, CertOrder, CertPast, CertDone
<1>5. CertWriting'
  BY <1>0, <1>2 DEF CertInv, CertWriting, c
<1>6. CertImporting'
  BY <1>0 DEF CertInv, CertImporting, CertSettled
<1>7. CertFiled'
  BY <1>0, <1>1, <1>2 DEF CertInv, CertFiled, CertSettled, CertSigned, CertDone, CertOrder, CertPast,
     CertImporting, CertLoaded
<1>8. CertLoaded'
  BY <1>0, <1>2 DEF CertInv, CertLoaded, CertPast
<1> QED
  BY <1>3, <1>4, <1>5, <1>6, <1>7, <1>8 DEF CertInv

LEMMA CertWriteKey == ASSUME CertInv, NEW p \in Cer!Pairs, Cer!WriteKey(p) PROVE CertInv'
<1> USE CertFacts DEF Cer!WriteKey
<1>0. /\ cerFresh \in Cer!Keys /\ cerLoaded[p].by \in Cer!Keys
      /\ cerFile[p].crt = [of |-> cerFresh, by |-> cerLoaded[p].by]
      /\ cerFile[p].crt.of = cerFresh /\ cerFile[p].crt.by = cerLoaded[p].by
      /\ cerFile[p].key \in {None, Torn} /\ cerImport = {} /\ cerWriting # None
      /\ cerLoaded[p].crt = cerFresh /\ cerLoaded[p].key = cerFresh
      /\ p # "ca" => cerLoaded[p].by = cerLoaded["ca"].key
  BY DEF CertInv, CertWriting, CertImporting
<1>1. cerFile[p].crt \in Cer!Certificates
  BY <1>0 DEF Cer!Certificates
<1>2. CASE cerFile[p].key # Torn
  <2>1. /\ cerFile' \in [Cer!Pairs -> [crt : Cer!Certificates \cup {None, Torn}, key : Cer!Keys \cup {None, Torn}]]
        /\ cerFile'[p].key = Torn /\ cerFile'[p].crt = cerFile[p].crt
        /\ \A q \in Cer!Pairs : q # p => cerFile'[q] = cerFile[q]
    BY <1>2, CertPut DEF CertInv
  <2>2. UNCHANGED <<cerLoaded, cerFresh, cerFailures, cerBackup, cerImport, cerDoubt, cerWriting, cerStage, cerPinned>>
    BY <1>2
  <2>3. CertTypes'
    BY <2>1, <2>2 DEF CertInv, CertTypes, Cer!TypeOK
  <2>4. CertOrder'
    BY <1>1, <2>1, <2>2 DEF CertInv, CertOrder, CertPast, CertDone
  <2>5. CertWriting'
    BY <1>0, <2>1, <2>2 DEF CertInv, CertWriting
  <2>6. CertImporting'
    BY <1>0, <2>2 DEF CertInv, CertImporting, CertSettled
  <2>7. CertFiled'
    BY <1>0, <1>1, <2>1, <2>2 DEF CertInv, CertFiled, CertSettled, CertSigned, CertDone, CertOrder, CertPast
  <2>8. CertLoaded'
    BY <1>0, <2>1, <2>2 DEF CertInv, CertLoaded, CertPast
  <2> QED
    BY <2>3, <2>4, <2>5, <2>6, <2>7, <2>8 DEF CertInv
<1>3. CASE cerFile[p].key = Torn
  <2>1. /\ cerFile' \in [Cer!Pairs -> [crt : Cer!Certificates \cup {None, Torn}, key : Cer!Keys \cup {None, Torn}]]
        /\ cerFile'[p].key = cerFresh /\ cerFile'[p].crt = cerFile[p].crt
        /\ \A q \in Cer!Pairs : q # p => cerFile'[q] = cerFile[q]
    BY <1>0, <1>3, CertPut DEF CertInv
  <2>2. /\ UNCHANGED <<cerLoaded, cerFresh, cerFailures, cerBackup, cerImport, cerDoubt>>
        /\ cerWriting' = None /\ Cer!Advance(p) /\ cerStage = p
    BY <1>3
  <2>3. CertTypes'
    <3>1. cerPinned' \in Cer!Keys \cup {None} /\ cerStage' \in Cer!Pairs \cup {"stopped", "running"}
      BY <2>2 DEF Cer!Advance, CertInv, CertTypes, CertLoaded, CertPast, Cer!TypeOK
    <3> QED
      BY <2>1, <2>2, <3>1 DEF CertInv, CertTypes, Cer!TypeOK
  <2>4. CertOrder'
    BY <1>0, <1>1, <2>1, <2>2 DEF Cer!Advance, CertInv, CertOrder, CertPast, CertDone
  <2>5. CertWriting'
    BY <2>2 DEF CertWriting
  <2>6. CertImporting'
    BY <1>0, <2>2 DEF Cer!Advance, CertInv, CertImporting, CertSettled, CertLoaded, CertPast
  <2>7. CertFiled'
    BY <1>0, <1>1, <2>1, <2>2 DEF Cer!Advance, CertInv, CertFiled, CertSettled, CertSigned, CertDone,
       CertOrder, CertPast, CertLoaded
  <2>8. cerLoaded[p] \in [crt : Cer!Keys, by : Cer!Keys, key : Cer!Keys]
    BY <1>0 DEF CertInv, CertTypes, Cer!TypeOK, Cer!NoPair
  <2>10. \A q \in Cer!Pairs : CertPast(q)' => q = p \/ CertPast(q)
    BY <2>2 DEF Cer!Advance, CertPast
  <2>9. CertLoaded'
    <3>1. CASE p = "ca"
      BY <1>0, <2>1, <2>2, <2>8, <2>10, <3>1 DEF Cer!Advance, CertLoaded, CertPast
    <3>2. CASE p # "ca"
      <4>1. "cut" \notin cerDoubt => cerLoaded["ca"].crt = cerLoaded["ca"].key
        BY <2>2, <3>2 DEF CertInv, CertLoaded, CertPast, CertFiled, CertSettled, CertOrder
      <4> QED
        BY <1>0, <2>1, <2>2, <2>8, <2>10, <3>2, <4>1 DEF Cer!Advance, CertInv, CertLoaded, CertPast
    <3> QED
      BY <3>1, <3>2
  <2> QED
    BY <2>3, <2>4, <2>5, <2>6, <2>7, <2>9 DEF CertInv
<1> QED
  BY <1>2, <1>3

LEMMA CertStep == ASSUME CertInv, Cer!Next \/ UNCHANGED cerVars PROVE CertInv'
<1>1. CASE UNCHANGED cerVars
  BY <1>1 DEF cerVars, CertInv, CertTypes, Cer!TypeOK, CertOrder, CertPast, CertDone, CertWriting,
     CertImporting, CertSettled, CertFiled, CertSigned, CertLoaded
<1> QED
  BY <1>1, CertStart, CertRefuse, CertExport, CertBeginImport, CertStop, CertLoseKey, CertReinstall,
     CertImportOne, CertLoad, CertGenerate, CertWriteCrt, CertWriteKey DEF Cer!Next

\* A manager that runs keeps its identity, through cut starts, exports and whole imports.
THEOREM CertsPart == Spec => []IdentityHolds
<1> DEFINE Inv == part = "certs" => CertInv
<1>1. Init => Inv
  BY CertInit DEF Init
<1>2. Inv /\ [Next]_vars => Inv'
  BY PartStep, CertStep
<1>3. Inv => IdentityHolds
  BY CertInvHolds DEF IdentityHolds
<1> QED
  BY <1>1, <1>2, <1>3, PTL DEF Spec

-----------------------------------------------------------------------------
(* The types of them all. *)

LEMMA EnrollmentTypes == EnrP!EnrollmentInv => Enr!TypeOK
<1>1. EnrP!EnrollmentInv => EnrP!TypeOK
  BY EnrP!InvRevoked
<1>2. EnrP!TypeOK <=> Enr!TypeOK
  BY DEF EnrP!TypeOK, Enr!TypeOK, EnrP!Idle, Enr!Idle
<1> QED
  BY <1>1, <1>2

\* Whichever component runs keeps to its types, for any number of hosts, reads, files, requests
\* and certificates.
THEOREM PartsKeepTypes == Spec => []TypeOK
<1> DEFINE Inv ==
      /\ part = "enrollment" => EnrP!EnrollmentInv
      /\ part = "dialer" => DialerInv
      /\ part = "logs" => LogTyped
      /\ part = "files" => FileInv
      /\ part = "images" => ImageInv
      /\ part = "accounts" => AccountsInv
      /\ part = "audit" => AuditTyped
      /\ part = "certs" => CertInv
<1>0. EnrP!SerialsAssumption /\ Acc!BoundsAssumption
  BY PartsAssumption DEF Enr!SerialsAssumption, EnrP!SerialsAssumption
<1>1. Init => Inv
  BY <1>0, EnrollmentSame, EnrP!EnrollmentInit, DialerInit, LogTypedInit, FileInit, ImageInit,
     AccountsInit, AuditTypedInit, CertInit DEF Init
<1>2. Inv /\ [Next]_vars => Inv'
  <2> SUFFICES ASSUME Inv, [Next]_vars PROVE Inv'
    OBVIOUS
  <2>1. part = "enrollment" => EnrP!EnrollmentInv'
    BY <1>0, PartStep, EnrollmentSame, EnrP!EnrollmentNext
  <2>2. part = "dialer" => DialerInv'
    BY PartStep, DialerNext, PartsAssumption
  <2>3. part = "logs" => LogTyped'
    BY PartStep, LogTypedStep
  <2>4. part = "files" => FileInv'
    BY PartStep, FileStep
  <2>5. part = "images" => ImageInv'
    BY PartStep, ImageStep
  <2>6. part = "accounts" => AccountsInv'
    BY <1>0, PartStep, AccountsNext
  <2>7. part = "audit" => AuditTyped'
    BY PartStep, AuditTypedStep
  <2>8. part = "certs" => CertInv'
    BY PartStep, CertStep
  <2> QED
    BY <2>1, <2>2, <2>3, <2>4, <2>5, <2>6, <2>7, <2>8, PartStep
<1>3. Inv /\ Sch!TypeOK => TypeOK
  BY EnrollmentTypes, FileInvKeeps, AccountsInvSignedOut, CertInvHolds
     DEF TypeOK, DialerInv, ImageInv, LogTyped, AuditTyped
<1> QED
  BY <1>1, <1>2, <1>3, SchedulerKeepsTypes, PTL DEF Spec
=============================================================================
