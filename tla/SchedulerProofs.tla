--------------------------- MODULE SchedulerProofs ----------------------------
(***************************************************************************)
(* Proofs about the scheduler, as ManagerParts runs it: that a task is an  *)
(* Alarm, whatever the hosts, bodies, arrays and policies' limits are, and *)
(* that a failure stays visible.                                           *)
(***************************************************************************)
EXTENDS ManagerParts, FiniteSetTheorems, TLAPS

TaskFields == {"hosts", "misfire", "optIn", "enabled", "next", "status", "err"}
FireFields == {"pc", "hosts", "at", "ok", "failed", "sent"}

\* What the alarm depends on of a task: its lists of hosts are left open.
IsTask(t) == DOMAIN t = TaskFields /\ t.next \in Nat \ {0} /\ t.misfire \in Sch!Policies

\* The file has the slot and the policy of the stored task.
SameAlarm(t, u) ==
    \/ t = Sch!NoTask /\ u = Sch!NoTask
    \/ IsTask(t) /\ IsTask(u) /\ t.next = u.next /\ t.misfire = u.misfire

IsFire(fire) == DOMAIN fire = FireFields /\ fire.pc \in {"next", "wait", "called"}

(* The slot a task is armed for is later than the last one it ran for, and  *)
(* what a restart finds on file is armed for the same.                      *)
SchedulerInv ==
    /\ schNow \in Nat \ {0} /\ schNow <= MaxTime + 1
    /\ schRung \in Nat /\ schRung <= schNow /\ schCrashes \in Nat
    /\ SameAlarm(schTask, schFile)
    /\ schTask # Sch!NoTask => schTask.next > schRung
    /\ schEdit = Sch!NoEdit \/ IsTask(schEdit)
    /\ DOMAIN schFires = Sch!Fires
    /\ \A f \in Sch!Fires : schFires[f] = Sch!Idle \/ IsFire(schFires[f])

LEMMA SchedulerConstants ==
    /\ {Period, Retry} \subseteq Nat \ {0} /\ {Grace, Window, MaxTime} \subseteq Nat
    /\ \A body \in Bodies : body.misfire \in Sch!Policies
  BY PartsAssumption DEF Sch!SchedulerAssumption

LEMMA SchedulerNone ==
    /\ Sch!NoTask.next = 0 /\ Sch!NoEdit = Sch!NoTask
    /\ \A t : IsTask(t) => t # Sch!NoTask
    /\ \A fire : IsFire(fire) => fire # Sch!Idle
  BY DEF Sch!NoTask, Sch!NoEdit, Sch!Idle, IsTask, IsFire

LEMMA SchedulerSlot ==
    ASSUME NEW t \in Nat
    PROVE  Sch!NextSlot(t) \in Nat \ {0} /\ Sch!NextSlot(t) > t
<1> DEFINE q == t \div Period
           r == t % Period
<1>1. Period \in Nat \ {0}
  BY SchedulerConstants
<1>2. q \in Nat /\ r \in 0..(Period - 1) /\ t = q * Period + r
  BY <1>1
<1>3. (q + 1) * Period = q * Period + Period /\ q * Period \in Nat
  BY <1>1, <1>2
<1> HIDE DEF q, r
<1> QED
  BY <1>1, <1>2, <1>3 DEF Sch!NextSlot, q

LEMMA SchedulerInit == Sch!Init => SchedulerInv
  BY SchedulerConstants, SchedulerNone DEF Sch!Init, SchedulerInv, SameAlarm, Sch!Idle

\* What a critical section saves is armed for the same.
LEMMA SchedulerSaves ==
    ASSUME schTask' = Sch!NoTask \/ IsTask(schTask'), Sch!Save
    PROVE  SameAlarm(schTask', schFile')
<1>1. CASE schTask' = Sch!NoTask
  BY <1>1 DEF Sch!Save, Sch!OnDisk, SameAlarm
<1>2. CASE IsTask(schTask')
  BY <1>2, SchedulerNone DEF Sch!Save, Sch!OnDisk, SameAlarm, IsTask, TaskFields
<1> QED
  BY <1>1, <1>2

-----------------------------------------------------------------------------
(* What the steps do to the slot, the policy and the status of the task.    *)

\* The same slot and policy, and the same status.
Kept == /\ schTask' = Sch!NoTask <=> schTask = Sch!NoTask
        /\ schTask # Sch!NoTask => /\ IsTask(schTask') /\ schTask'.next = schTask.next
                                   /\ schTask'.misfire = schTask.misfire
\* Another slot, still to come.
Armed == IsTask(schTask') /\ schTask'.next > schNow


\* An alarm that goes on, is set or taken off, or rings.
AlarmStep ==
    \/ Kept /\ (schNow' = schNow \/ schNow' > schNow) /\ schRung' = schRung
    \/ Armed /\ UNCHANGED <<schNow, schRung>>
    \/ schTask' = Sch!NoTask /\ UNCHANGED <<schNow, schRung>>
    \/ /\ Sch!Due /\ ~Sch!Missed /\ schRung' = schTask.next
       /\ Armed /\ schTask'.misfire = schTask.misfire /\ UNCHANGED schNow

\* What FailureStands asks of a step.
Stands ==
    schTask # Sch!NoTask /\ schTask' # Sch!NoTask /\ schCrashes' = schCrashes =>
        /\ (schTask.status = "failed" =>
                \/ schTask'.status = "failed" \/ Sch!Begins
                \/ schTask'.status = "skipped" /\ schTask'.next # schTask.next)
        /\ \A f \in Sch!Fires : schFires[f] # Sch!Idle /\ schFires'[f] = Sch!Idle /\ schFires[f].failed
                => schTask'.status = "failed"

\* What a step does to the runs under way, and to the copy of a PUT.
RunsKept ==
    /\ DOMAIN schFires' = Sch!Fires
    /\ \A f \in Sch!Fires : schFires'[f] = Sch!Idle \/ IsFire(schFires'[f])
    /\ schEdit' = Sch!NoEdit \/ IsTask(schEdit')
    /\ schCrashes' \in Nat

LEMMA SchedulerTaskAt ==
    ASSUME SchedulerInv
    PROVE  schTask # Sch!NoTask =>
             /\ IsTask(schTask) /\ IsTask(schFile)
             /\ schFile.next = schTask.next /\ schFile.misfire = schTask.misfire
  BY DEF SchedulerInv, SameAlarm

\* The alarm of the scheduler never falls behind its last slot.
LEMMA SchedulerKeeps ==
    ASSUME SchedulerInv, AlarmStep, RunsKept, SameAlarm(schTask', schFile'),
           schNow' \in Nat, schNow' <= MaxTime + 1
    PROVE  SchedulerInv'
<1>1. schNow' \in Nat \ {0} /\ schRung' \in Nat /\ schRung' <= schNow'
      /\ (schTask' # Sch!NoTask => schTask'.next > schRung')
  <2>1. CASE Kept /\ (schNow' = schNow \/ schNow' > schNow) /\ schRung' = schRung
    BY <2>1, SchedulerNone DEF Kept, SchedulerInv
  <2>2. CASE Armed /\ UNCHANGED <<schNow, schRung>>
    BY <2>2 DEF Armed, SchedulerInv, IsTask
  <2>3. CASE schTask' = Sch!NoTask /\ UNCHANGED <<schNow, schRung>>
    BY <2>3 DEF SchedulerInv
  <2>4. CASE Sch!Due /\ schRung' = schTask.next /\ Armed /\ UNCHANGED schNow
    BY <2>4, SchedulerTaskAt DEF Sch!Due, Sch!Stored, Armed, SchedulerInv, IsTask
  <2> QED
    BY <2>1, <2>2, <2>3, <2>4 DEF AlarmStep
<1> QED
  BY <1>1 DEF SchedulerInv, RunsKept

\* Such a step is one of the alarm.
LEMMA SchedulerAlarms ==
    ASSUME SchedulerInv, AlarmStep
    PROVE  Sch!TheAlarm!Next \/ UNCHANGED Sch!TheAlarm!vars
<1>0. schTask # Sch!NoTask => IsTask(schTask)
  BY SchedulerTaskAt
<1>1. CASE Kept /\ (schNow' = schNow \/ schNow' > schNow) /\ schRung' = schRung
  <2>1. /\ schTask'.next = schTask.next
        /\ (IF Sch!Stored THEN schTask.misfire ELSE Sch!Skip)' = IF Sch!Stored THEN schTask.misfire ELSE Sch!Skip
    BY <1>1 DEF Kept, Sch!Stored, Sch!NoTask, Sch!Skip
  <2>2. CASE schNow' = schNow
    BY <1>1, <2>1, <2>2 DEF Sch!TheAlarm!vars
  <2>3. CASE schNow' > schNow
    BY <1>1, <2>1, <2>3 DEF Sch!TheAlarm!Next, Sch!TheAlarm!Elapse
  <2> QED
    BY <1>1, <2>2, <2>3
<1>2. CASE Armed /\ UNCHANGED <<schNow, schRung>>
  BY <1>2, SchedulerNone DEF Armed, IsTask, Sch!TheAlarm!Next, Sch!TheAlarm!Arm, Sch!Stored
<1>3. CASE schTask' = Sch!NoTask /\ UNCHANGED <<schNow, schRung>>
  BY <1>3, SchedulerNone DEF Sch!TheAlarm!Next, Sch!TheAlarm!Disarm, Sch!Stored, Sch!Policies
<1>4. CASE /\ Sch!Due /\ ~Sch!Missed /\ schRung' = schTask.next
           /\ Armed /\ schTask'.misfire = schTask.misfire /\ UNCHANGED schNow
  <2>1. IsTask(schTask) /\ schTask # Sch!NoTask /\ schTask.next <= schNow /\ schTask.next > schRung
        /\ schTask' # Sch!NoTask
    BY <1>4, <1>0, SchedulerNone DEF Sch!Due, Sch!Stored, Armed, SchedulerInv
  <2>2. schNow - schTask.next <= Sch!Limit(schTask.misfire)
    BY <1>4, <2>1, SchedulerConstants DEF Sch!Missed, Sch!Late, Sch!Limit, IsTask, Sch!Policies,
       Sch!Skip, Sch!Catchup, Sch!Rearm, SchedulerInv
  <2> QED
    BY <1>4, <2>1, <2>2 DEF Sch!TheAlarm!Next, Sch!TheAlarm!Ring, Sch!Stored, Armed
<1> QED
  BY <1>1, <1>2, <1>3, <1>4 DEF AlarmStep

LEMMA SchedulerPruneTo ==
    ASSUME SchedulerInv, NEW keep, Sch!PruneTo(keep)
    PROVE  Kept /\ SameAlarm(schTask', schFile') /\ (schTask # Sch!NoTask => schTask'.status = schTask.status)
<1>1. CASE UNCHANGED <<schTask, schFile>>
  BY <1>1, SchedulerTaskAt DEF SchedulerInv, Kept, SameAlarm
<1>2. CASE ~UNCHANGED <<schTask, schFile>>
  <2>1. schTask # Sch!NoTask /\ IsTask(schTask)
    BY <1>2, SchedulerTaskAt DEF Sch!PruneTo, Sch!Stored, Sch!taskVars
  <2>2. Sch!Save /\ \E hosts, enabled : schTask' = [schTask EXCEPT !.hosts = hosts, !.enabled = enabled]
    BY <1>2 DEF Sch!PruneTo, Sch!taskVars
  <2>3. IsTask(schTask') /\ schTask'.next = schTask.next /\ schTask'.misfire = schTask.misfire
        /\ schTask'.status = schTask.status
    BY <2>1, <2>2 DEF IsTask, TaskFields
  <2> QED
    BY <2>1, <2>2, <2>3, SchedulerNone, SchedulerSaves DEF Kept
<1> QED
  BY <1>1, <1>2
-----------------------------------------------------------------------------
(* The steps. *)

\* What every step is shown to do.
Fine == SchedulerInv' /\ AlarmStep /\ Stands

LEMMA SchedulerOutside ==
    ASSUME SchedulerInv,
           Sch!Elapse \/ (\E h \in Targets : Sch!Connect(h) \/ Sch!RemoveHost(h)) \/ UNCHANGED schVars
    PROVE  Fine
<1>1. /\ UNCHANGED <<schTask, schFile, schFires, schEdit, schRung, schCrashes>>
      /\ \/ schNow' = schNow
         \/ schNow < MaxTime /\ schNow' = schNow + 1
  BY DEF Sch!Elapse, Sch!Connect, Sch!RemoveHost, Sch!taskVars, Sch!boundVars, schVars
<1>2. AlarmStep
  BY <1>1, SchedulerTaskAt DEF AlarmStep, Kept, SchedulerInv
<1>3. SchedulerInv'
  BY <1>1, SchedulerConstants DEF SchedulerInv, SameAlarm
<1>4. Stands
  BY <1>1 DEF Stands
<1> QED
  BY <1>2, <1>3, <1>4 DEF Fine

LEMMA SchedulerPrune == ASSUME SchedulerInv, NEW h \in Targets, Sch!PruneHosts(h) PROVE Fine
<1>1. /\ UNCHANGED <<schNow, schFires, schEdit, schRung, schCrashes>> /\ Sch!PruneTo(Targets \ {h})
  BY DEF Sch!PruneHosts, Sch!boundVars
<1>2. Kept /\ SameAlarm(schTask', schFile') /\ (schTask # Sch!NoTask => schTask'.status = schTask.status)
  BY <1>1, SchedulerPruneTo
<1>3. AlarmStep /\ RunsKept
  BY <1>1, <1>2 DEF AlarmStep, RunsKept, SchedulerInv
<1>4. SchedulerInv'
  BY <1>1, <1>2, <1>3, SchedulerKeeps DEF SchedulerInv
<1>5. Stands
  BY <1>1, <1>2 DEF Stands
<1> QED
  BY <1>3, <1>4, <1>5 DEF Fine

LEMMA SchedulerCreate == ASSUME SchedulerInv, NEW body \in Bodies, Sch!Create(body) PROVE Fine
<1>1. /\ UNCHANGED <<schNow, schFires, schEdit, schRung, schCrashes>> /\ Sch!Save /\ ~Sch!Stored
      /\ schTask' = [hosts |-> Sch!Slice(Sch!Fresh, body.hosts, Len(body.hosts)), misfire |-> body.misfire,
                     optIn |-> body.optIn, enabled |-> body.enabled, next |-> Sch!NextSlot(schNow),
                     status |-> "", err |-> FALSE]
  BY DEF Sch!Create, Sch!boundVars
<1>2. Armed
  BY <1>1, SchedulerSlot, SchedulerConstants DEF Armed, IsTask, TaskFields, SchedulerInv
<1>3. AlarmStep /\ RunsKept
  BY <1>1, <1>2 DEF AlarmStep, RunsKept, SchedulerInv
<1>4. SchedulerInv'
  BY <1>1, <1>2, <1>3, SchedulerSaves, SchedulerKeeps DEF Armed, SchedulerInv
<1>5. Stands
  BY <1>1 DEF Stands, Sch!Stored
<1> QED
  BY <1>3, <1>4, <1>5 DEF Fine

LEMMA SchedulerDecode == ASSUME SchedulerInv, NEW body \in Bodies, Sch!DecodeEdit(body) PROVE Fine
<1>1. /\ UNCHANGED <<schNow, schFile, schRung, schCrashes>> /\ schTask # Sch!NoTask
      /\ \E hosts : schTask' = [schTask EXCEPT !.hosts = hosts]
      /\ DOMAIN schFires' = Sch!Fires
      /\ \A f \in Sch!Fires : IF schFires[f] = Sch!Idle THEN schFires'[f] = Sch!Idle
                              ELSE \E hosts : schFires'[f] = [schFires[f] EXCEPT !.hosts = hosts]
      /\ \/ schEdit' = Sch!NoEdit
         \/ \E hosts, enabled, optIn : schEdit' = [schTask EXCEPT !.hosts = hosts, !.misfire = body.misfire,
                                                     !.enabled = enabled, !.optIn = optIn]
  BY DEF Sch!DecodeEdit, Sch!Stored
<1>2. IsTask(schTask)
  BY <1>1, SchedulerTaskAt
<1>3. IsTask(schTask') /\ schTask'.next = schTask.next /\ schTask'.misfire = schTask.misfire
      /\ schTask'.status = schTask.status
  BY <1>1, <1>2 DEF IsTask, TaskFields
<1>4. \A f \in Sch!Fires : /\ schFires[f] = Sch!Idle => schFires'[f] = Sch!Idle
                           /\ schFires[f] # Sch!Idle => IsFire(schFires'[f])
  BY <1>1 DEF SchedulerInv, IsFire, FireFields
<1>5. schEdit' = Sch!NoEdit \/ IsTask(schEdit')
  BY <1>1, <1>2, SchedulerConstants DEF IsTask, TaskFields
<1>6. AlarmStep /\ RunsKept
  BY <1>1, <1>3, <1>4, <1>5, SchedulerNone DEF AlarmStep, Kept, RunsKept, SchedulerInv
<1>7. SchedulerInv'
  BY <1>1, <1>3, <1>6, SchedulerKeeps DEF SchedulerInv, SameAlarm
<1>8. Stands
  BY <1>3, <1>4, SchedulerNone DEF Stands
<1> QED
  BY <1>6, <1>7, <1>8 DEF Fine

LEMMA SchedulerUpdate == ASSUME SchedulerInv, Sch!Update PROVE Fine
<1>1. /\ UNCHANGED <<schNow, schFires, schRung, schCrashes>> /\ Sch!Save
      /\ schEdit # Sch!NoEdit /\ schEdit' = Sch!NoEdit
      /\ schTask' = IF schTask # Sch!NoTask
                    THEN [schEdit EXCEPT !.next = Sch!NextSlot(schNow), !.status = schTask.status,
                                         !.err = schTask.err]
                    ELSE Sch!NoTask
  BY DEF Sch!Update, Sch!boundVars, Sch!Stored
<1>2. IsTask(schEdit)
  BY <1>1 DEF SchedulerInv
<1>3. schTask # Sch!NoTask => Armed /\ schTask'.status = schTask.status
  BY <1>1, <1>2, SchedulerSlot DEF Armed, IsTask, TaskFields, SchedulerInv
<1>4. AlarmStep /\ RunsKept
  BY <1>1, <1>3 DEF AlarmStep, RunsKept, SchedulerInv
<1>5. SchedulerInv'
  BY <1>1, <1>3, <1>4, SchedulerSaves, SchedulerKeeps DEF Armed, SchedulerInv
<1>6. Stands
  BY <1>1, <1>3 DEF Stands
<1> QED
  BY <1>4, <1>5, <1>6 DEF Fine

LEMMA SchedulerDelete == ASSUME SchedulerInv, Sch!Delete PROVE Fine
<1>1. /\ UNCHANGED <<schNow, schFires, schEdit, schRung, schCrashes>> /\ Sch!Save
      /\ schTask' = Sch!NoTask
  BY DEF Sch!Delete
<1>2. AlarmStep /\ RunsKept /\ Stands
  BY <1>1 DEF AlarmStep, RunsKept, Stands, SchedulerInv
<1>3. SchedulerInv'
  BY <1>1, <1>2, SchedulerSaves, SchedulerKeeps DEF SchedulerInv
<1> QED
  BY <1>2, <1>3 DEF Fine

\* A run that starts is under way.
LEMMA SchedulerStart ==
    ASSUME SchedulerInv, NEW f \in Sch!Fires, Sch!Start(f)
    PROVE  /\ DOMAIN schFires' = Sch!Fires /\ Sch!Begins
           /\ \A g \in Sch!Fires : schFires'[g] = Sch!Idle \/ IsFire(schFires'[g])
           /\ \A g \in Sch!Fires : schFires'[g] = Sch!Idle => schFires[g] = Sch!Idle
<1>1. IsFire(schFires'[f]) /\ DOMAIN schFires' = Sch!Fires
      /\ \A g \in Sch!Fires : g # f => schFires'[g] = schFires[g]
  BY DEF Sch!Start, SchedulerInv, IsFire, FireFields
<1> QED
  BY <1>1, SchedulerNone DEF Sch!Start, Sch!Begins, SchedulerInv

LEMMA SchedulerRunNow == ASSUME SchedulerInv, NEW f \in Sch!Fires, Sch!RunNow(f) PROVE Fine
<1>1. /\ UNCHANGED <<schNow, schEdit, schRung, schCrashes>> /\ Sch!Save /\ Sch!Start(f)
      /\ schTask # Sch!NoTask /\ schTask' = [schTask EXCEPT !.status = "", !.err = FALSE]
  BY DEF Sch!RunNow, Sch!Stored
<1>2. Kept /\ IsTask(schTask')
  BY <1>1, SchedulerTaskAt, SchedulerNone DEF Kept, IsTask, TaskFields
<1>3. AlarmStep /\ RunsKept /\ Stands
  BY <1>1, <1>2, SchedulerStart DEF AlarmStep, RunsKept, Stands, SchedulerInv
<1>4. SchedulerInv'
  BY <1>1, <1>2, <1>3, SchedulerSaves, SchedulerKeeps DEF SchedulerInv
<1> QED
  BY <1>3, <1>4 DEF Fine

LEMMA SchedulerPostpone == ASSUME SchedulerInv, Sch!TickRearm \/ Sch!TickSkip PROVE Fine
<1>0. /\ UNCHANGED <<schNow, schFires, schEdit, schRung, schCrashes>> /\ Sch!Save
      /\ schTask # Sch!NoTask /\ schTask.next <= schNow
  BY DEF Sch!TickRearm, Sch!TickSkip, Sch!Due, Sch!Stored, Sch!boundVars
<1>1. IsTask(schTask)
  BY <1>0, SchedulerTaskAt
<1>2. CASE Sch!TickRearm
  <2>1. schTask' = [schTask EXCEPT !.next = schNow + Retry]
    BY <1>2 DEF Sch!TickRearm
  <2>2. Armed /\ schTask'.status = schTask.status
    BY <1>1, <2>1, SchedulerConstants DEF Armed, IsTask, TaskFields, SchedulerInv
  <2>3. AlarmStep /\ RunsKept /\ Stands
    BY <1>0, <2>2 DEF AlarmStep, RunsKept, Stands, SchedulerInv
  <2>4. SchedulerInv'
    BY <1>0, <2>2, <2>3, SchedulerSaves, SchedulerKeeps DEF Armed, SchedulerInv
  <2> QED
    BY <2>3, <2>4 DEF Fine
<1>3. CASE Sch!TickSkip
  <2>1. schTask' = [schTask EXCEPT !.next = Sch!NextSlot(schNow), !.status = "skipped"]
    BY <1>3 DEF Sch!TickSkip
  <2>2. Armed /\ schTask'.status = "skipped" /\ schTask'.next # schTask.next
    BY <1>0, <1>1, <2>1, SchedulerSlot DEF Armed, IsTask, TaskFields, SchedulerInv
  <2>3. AlarmStep /\ RunsKept /\ Stands
    BY <1>0, <2>2 DEF AlarmStep, RunsKept, Stands, SchedulerInv
  <2>4. SchedulerInv'
    BY <1>0, <2>2, <2>3, SchedulerSaves, SchedulerKeeps DEF Armed, SchedulerInv
  <2> QED
    BY <2>3, <2>4 DEF Fine
<1> QED
  BY <1>2, <1>3

LEMMA SchedulerRun == ASSUME SchedulerInv, NEW f \in Sch!Fires, Sch!TickRun(f) PROVE Fine
<1>1. /\ UNCHANGED <<schNow, schEdit, schCrashes>> /\ Sch!Save /\ Sch!Start(f)
      /\ Sch!Due /\ ~Sch!Missed /\ schRung' = schTask.next
      /\ schTask' = [schTask EXCEPT !.next = Sch!NextSlot(schNow), !.status = "", !.err = FALSE]
  BY DEF Sch!TickRun, Sch!boundVars
<1>2. IsTask(schTask)
  BY <1>1, SchedulerTaskAt DEF Sch!Due, Sch!Stored
<1>3. Armed /\ schTask'.misfire = schTask.misfire
  BY <1>1, <1>2, SchedulerSlot DEF Armed, IsTask, TaskFields, SchedulerInv
<1>4. AlarmStep
  BY <1>1, <1>3 DEF AlarmStep
<1>5. RunsKept /\ Stands
  BY <1>1, SchedulerStart DEF RunsKept, Stands, SchedulerInv
<1>6. SchedulerInv'
  BY <1>1, <1>3, <1>4, <1>5, SchedulerSaves, SchedulerKeeps DEF Armed, SchedulerInv
<1> QED
  BY <1>4, <1>5, <1>6 DEF Fine

LEMMA SchedulerDispatches ==
    ASSUME SchedulerInv, NEW f \in Sch!Fires, Sch!NextHost(f) \/ Sch!Dispatch(f)
    PROVE  Fine
<1>1. UNCHANGED <<schNow, schTask, schFile, schEdit, schRung, schCrashes>>
  BY DEF Sch!NextHost, Sch!Dispatch, Sch!taskVars, Sch!boundVars
<1>2. IsFire(schFires[f])
  <2>1. schFires[f].pc \in {"next", "wait"}
    BY DEF Sch!NextHost, Sch!Dispatch
  <2>2. schFires[f] # Sch!Idle
    BY <2>1 DEF Sch!Idle
  <2> QED
    BY <2>2 DEF SchedulerInv
<1>3. IsFire(schFires'[f]) /\ DOMAIN schFires' = Sch!Fires
      /\ \A g \in Sch!Fires : g # f => schFires'[g] = schFires[g]
  <2>1. CASE \E ok, failed : schFires' = [schFires EXCEPT ![f].pc = "called", ![f].ok = ok, ![f].failed = failed]
    BY <1>2, <2>1 DEF SchedulerInv, IsFire, FireFields
  <2>2. CASE schFires' = [schFires EXCEPT ![f].pc = "wait", ![f].sent = TRUE]
    BY <1>2, <2>2 DEF SchedulerInv, IsFire, FireFields
  <2>3. CASE schFires' = [schFires EXCEPT ![f].at = @ + 1]
    BY <1>2, <2>3 DEF SchedulerInv, IsFire, FireFields
  <2>4. CASE Sch!NextHost(f)
    BY <2>2, <2>3, <2>4 DEF Sch!NextHost
  <2>5. CASE Sch!Dispatch(f)
    <3>1. PICK ok \in BOOLEAN :
            schFires' = [schFires EXCEPT ![f].pc = "called", ![f].ok = ok, ![f].failed = @ \/ ~ok]
      BY <2>5 DEF Sch!Dispatch
    <3>2. schFires' = [schFires EXCEPT ![f].pc = "called", ![f].ok = ok,
                                       ![f].failed = schFires[f].failed \/ ~ok]
      BY <3>1
    <3> QED
      BY <2>1, <3>2
  <2> QED
    BY <2>4, <2>5
<1>4. AlarmStep /\ RunsKept /\ Stands
  BY <1>1, <1>3, SchedulerTaskAt, SchedulerNone DEF AlarmStep, Kept, RunsKept, Stands, SchedulerInv
<1>5. SchedulerInv'
  BY <1>1, <1>4, SchedulerKeeps DEF SchedulerInv, SameAlarm
<1> QED
  BY <1>4, <1>5 DEF Fine

LEMMA SchedulerRecord == ASSUME SchedulerInv, NEW f \in Sch!Fires, Sch!Record(f) PROVE Fine
<1>1. /\ UNCHANGED <<schNow, schEdit, schRung, schCrashes>>
      /\ schFires' = [schFires EXCEPT ![f].pc = "next", ![f].at = @ + 1]
  BY DEF Sch!Record, Sch!boundVars
<1>2. IsFire(schFires[f])
  BY DEF Sch!Record, Sch!Idle, SchedulerInv
<1>3. IsFire(schFires'[f]) /\ DOMAIN schFires' = Sch!Fires
      /\ \A g \in Sch!Fires : g # f => schFires'[g] = schFires[g]
  BY <1>1, <1>2 DEF SchedulerInv, IsFire, FireFields
<1>4. CASE schTask = Sch!NoTask
  <2>1. UNCHANGED <<schTask, schFile>>
    BY <1>4 DEF Sch!Record, Sch!Stored, Sch!taskVars
  <2>2. AlarmStep /\ RunsKept /\ Stands
    BY <1>1, <1>3, <1>4, <2>1 DEF AlarmStep, RunsKept, Stands, SchedulerInv
  <2>3. SchedulerInv'
    BY <1>1, <2>1, <2>2, SchedulerKeeps DEF SchedulerInv, SameAlarm
  <2> QED
    BY <2>2, <2>3 DEF Fine
<1>5. CASE schTask # Sch!NoTask
  <2>1. Sch!Save /\ schTask' = [schTask EXCEPT !.err = ~schFires[f].ok,
                                  !.status = IF schFires[f].ok THEN @ ELSE "failed"]
    BY <1>5 DEF Sch!Record, Sch!Stored
  <2>2. Kept /\ IsTask(schTask') /\ schTask'.status \in {schTask.status, "failed"}
    BY <1>5, <2>1, SchedulerTaskAt, SchedulerNone DEF Kept, IsTask, TaskFields
  <2>3. AlarmStep /\ RunsKept /\ Stands
    BY <1>1, <1>3, <2>2, SchedulerNone DEF AlarmStep, RunsKept, Stands, SchedulerInv
  <2>4. SchedulerInv'
    BY <1>1, <2>1, <2>2, <2>3, SchedulerSaves, SchedulerKeeps DEF SchedulerInv
  <2> QED
    BY <2>3, <2>4 DEF Fine
<1> QED
  BY <1>4, <1>5

LEMMA SchedulerFinish == ASSUME SchedulerInv, NEW f \in Sch!Fires, Sch!FinishFire(f) PROVE Fine
<1>1. /\ UNCHANGED <<schNow, schEdit, schRung, schCrashes>>
      /\ schFires' = [schFires EXCEPT ![f] = Sch!Idle]
  BY DEF Sch!FinishFire, Sch!boundVars
<1>2. schFires'[f] = Sch!Idle /\ DOMAIN schFires' = Sch!Fires
      /\ \A g \in Sch!Fires : g # f => schFires'[g] = schFires[g]
  BY <1>1 DEF SchedulerInv
<1>3. RunsKept
  BY <1>1, <1>2 DEF RunsKept, SchedulerInv
<1>4. CASE schTask = Sch!NoTask \/ schTask.status = "failed"
  <2>1. UNCHANGED <<schTask, schFile>>
    BY <1>4 DEF Sch!FinishFire, Sch!Stored, Sch!taskVars
  <2>2. AlarmStep /\ Stands
    BY <1>1, <1>2, <1>4, <2>1, SchedulerTaskAt DEF AlarmStep, Kept, Stands
  <2>3. SchedulerInv'
    BY <1>1, <1>3, <2>1, <2>2, SchedulerKeeps DEF SchedulerInv, SameAlarm
  <2> QED
    BY <2>2, <2>3 DEF Fine
<1>5. CASE schTask # Sch!NoTask /\ schTask.status # "failed"
  <2>1. Sch!Save /\ schTask' = [schTask EXCEPT !.status = IF schFires[f].failed THEN "failed"
                                  ELSE IF schFires[f].sent THEN "dispatched" ELSE "skipped"]
    BY <1>5 DEF Sch!FinishFire, Sch!Stored
  <2>2. Kept /\ IsTask(schTask') /\ (schFires[f].failed => schTask'.status = "failed")
    BY <1>5, <2>1, SchedulerTaskAt, SchedulerNone DEF Kept, IsTask, TaskFields
  <2>3. AlarmStep /\ Stands
    BY <1>1, <1>2, <1>5, <2>2 DEF AlarmStep, Stands
  <2>4. SchedulerInv'
    BY <1>1, <1>3, <2>1, <2>2, <2>3, SchedulerSaves, SchedulerKeeps DEF SchedulerInv
  <2> QED
    BY <2>3, <2>4 DEF Fine
<1> QED
  BY <1>4, <1>5

LEMMA SchedulerRestart == ASSUME SchedulerInv, Sch!Restart PROVE Fine
<1>1. /\ UNCHANGED <<schNow, schRung>> /\ schCrashes' = schCrashes + 1 /\ Sch!Save
      /\ schFires' = [f \in Sch!Fires |-> Sch!Idle] /\ schEdit' = Sch!NoEdit
      /\ \/ schFile = Sch!NoTask /\ schTask' = Sch!NoTask
         \/ /\ schFile # Sch!NoTask
            /\ \E hosts, enabled : schTask' = [schFile EXCEPT !.hosts = hosts, !.enabled = enabled]
  BY DEF Sch!Restart
<1>2. RunsKept
  <2>1. schCrashes' = schCrashes + 1 /\ schCrashes \in Nat
    BY <1>1 DEF SchedulerInv
  <2>2. schCrashes' \in Nat
    BY <2>1
  <2>3. schFires' = [f \in Sch!Fires |-> Sch!Idle] /\ schEdit' = Sch!NoEdit
    BY <1>1
  <2> QED
    BY <2>2, <2>3 DEF RunsKept
<1>5. Stands
  <2>1. schCrashes' = schCrashes + 1 /\ schCrashes \in Nat
    BY <1>1 DEF SchedulerInv
  <2>2. schCrashes' # schCrashes
    BY <2>1
  <2> QED
    BY <2>2 DEF Stands
<1>3. CASE schFile = Sch!NoTask
  BY <1>1, <1>2, <1>5, <1>3, SchedulerSaves, SchedulerKeeps DEF AlarmStep, SchedulerInv, Fine
<1>4. CASE schFile # Sch!NoTask
  <2>1. IsTask(schTask) /\ schTask # Sch!NoTask /\ IsTask(schFile)
        /\ schFile.next = schTask.next /\ schFile.misfire = schTask.misfire
    BY <1>4, SchedulerNone DEF SchedulerInv, SameAlarm
  <2>2. IsTask(schTask') /\ schTask'.next = schFile.next /\ schTask'.misfire = schFile.misfire
    BY <1>1, <1>4, <2>1 DEF IsTask, TaskFields
  <2>3. AlarmStep
    BY <1>1, <2>1, <2>2, SchedulerNone DEF AlarmStep, Kept
  <2>4. SchedulerInv'
    BY <1>1, <1>2, <2>2, <2>3, SchedulerSaves, SchedulerKeeps DEF SchedulerInv
  <2> QED
    BY <1>5, <2>3, <2>4 DEF Fine
<1> QED
  BY <1>3, <1>4

LEMMA SchedulerTakes == ASSUME SchedulerInv, Sch!Next \/ UNCHANGED schVars PROVE Fine
<1>1. CASE Sch!Elapse \/ (\E h \in Targets : Sch!Connect(h) \/ Sch!RemoveHost(h)) \/ UNCHANGED schVars
  BY <1>1, SchedulerOutside
<1>2. CASE \E h \in Targets : Sch!PruneHosts(h)
  BY <1>2, SchedulerPrune
<1>3. CASE \E body \in Bodies : Sch!Create(body) \/ Sch!DecodeEdit(body)
  BY <1>3, SchedulerCreate, SchedulerDecode
<1>4. CASE \E f \in Sch!Fires : Sch!RunNow(f) \/ Sch!TickRun(f)
  BY <1>4, SchedulerRunNow, SchedulerRun
<1>5. CASE \E f \in Sch!Fires : Sch!NextHost(f) \/ Sch!Dispatch(f) \/ Sch!Record(f) \/ Sch!FinishFire(f)
  BY <1>5, SchedulerDispatches, SchedulerRecord, SchedulerFinish
<1>6. CASE Sch!Update \/ Sch!Delete \/ Sch!TickRearm \/ Sch!TickSkip \/ Sch!Restart
  BY <1>6, SchedulerUpdate, SchedulerDelete, SchedulerPostpone, SchedulerRestart
<1> QED
  BY <1>1, <1>2, <1>3, <1>4, <1>5, <1>6 DEF Sch!Next

-----------------------------------------------------------------------------
(* The scheduler in the composition: it takes its steps, or rests. *)

LEMMA SchedulerMoves == ASSUME SchedulerInv, [Next]_vars PROVE Fine
<1>1. Sch!Next \/ UNCHANGED schVars
  BY DEF Next, vars, SchedulerStep, EnrollmentStep, DialerStep, LogStreamsStep,
         StackFilesStep, ImageUpdatesStep, AccountsStep, AuditLogStep, CertFilesStep
<1> QED
  BY <1>1, SchedulerTakes

\* The slot a task waits for is later than the last one it ran for, and so is the one on file.
THEOREM SchedulerInvariant == Spec => []SchedulerInv
<1>1. Init => SchedulerInv
  BY SchedulerInit DEF Init
<1>2. ASSUME SchedulerInv, [Next]_vars PROVE SchedulerInv'
  BY <1>2, SchedulerMoves DEF Fine
<1> QED
  BY <1>1, <1>2, PTL DEF Spec

\* A task runs for a slot at most once, never before it, and no later than its policy allows,
\* whatever restarts, edits and removals come between.
THEOREM SchedulerIsAlarm == Spec => ImplementsAlarm
<1>1. Init => Sch!TheAlarm!Init
  BY SchedulerNone DEF Init, Sch!Init, Sch!TheAlarm!Init, Sch!Stored, Sch!Policies
<1>2. ASSUME SchedulerInv, [Next]_vars PROVE [Sch!TheAlarm!Next]_(Sch!TheAlarm!vars)
  <2>1. AlarmStep
    BY <1>2, SchedulerMoves DEF Fine
  <2> QED
    BY <1>2, <2>1, SchedulerAlarms
<1> QED
  BY <1>1, <1>2, SchedulerInvariant, PTL DEF Spec, ImplementsAlarm, Sch!ImplementsAlarm, Sch!TheAlarm!Spec

\* A failure of a host is what the task shows until it runs again.
THEOREM SchedulerFailureStands == Spec => FailureStands
<1>1. ASSUME SchedulerInv, [Next]_vars
      PROVE  [Sch!Stored /\ schTask' # Sch!NoTask /\ schCrashes' = schCrashes =>
        /\ (schTask.status = "failed" =>
                \/ schTask'.status = "failed" \/ Sch!Begins
                \/ schTask'.status = "skipped" /\ schTask'.next # schTask.next)
        /\ \A f \in Sch!Fires : schFires[f] # Sch!Idle /\ schFires'[f] = Sch!Idle /\ schFires[f].failed
                => schTask'.status = "failed"]_(Sch!vars)
  <2>1. Stands
    BY <1>1, SchedulerMoves DEF Fine
  <2> QED
    BY <2>1 DEF Stands, Sch!Stored
<1> QED
  BY <1>1, SchedulerInvariant, PTL DEF Spec, FailureStands, Sch!FailureStands

-----------------------------------------------------------------------------
(* The scheduler keeps to its types. *)

LEMMA Least ==
    ASSUME NEW T \in SUBSET Nat, T # {}
    PROVE  \E m \in T : \A n \in T : m <= n
<1> DEFINE R == {r \in Nat \X Nat : r[1] < r[2]}
<1>1. \A m \in Nat, n \in Nat : n < m => <<n, m>> \in R
  OBVIOUS
<1>2. IsWellFoundedOn(R, Nat)
  BY NatLessThanWellFounded DEF OpToRel
<1> HIDE DEF R
<1>3. PICK m \in T : \A n \in T : ~(<<n, m>> \in R)
  BY <1>2, WFMin
<1>4. ASSUME NEW n \in T PROVE m <= n
  <2>1. m \in Nat /\ n \in Nat
    OBVIOUS
  <2>2. ~(n < m)
    BY <1>1, <1>3, <2>1, Zenon
  <2> QED
    BY <2>1, <2>2
<1> QED
  BY <1>4

\* The instance of FiniteSets that the scheduler has is the one the theorems are about.
LEMMA SchedulerFinite ==
    ASSUME NEW S
    PROVE  Sch!Cardinality(S) = Cardinality(S) /\ (Sch!IsFiniteSet(S) <=> IsFiniteSet(S))
<1>1. Sch!Cardinality(S) = Cardinality(S)
  BY Zenon DEF Sch!Cardinality, Cardinality
<1>2. Sch!IsFiniteSet(S) <=> IsFiniteSet(S)
  BY Zenon DEF Sch!IsFiniteSet, IsFiniteSet
<1> QED
  BY <1>1, <1>2

\* The hosts that are kept are hosts: for each of them there is a place up to which so many
\* are kept.
LEMMA FilterTyped ==
    ASSUME NEW S, NEW s \in Seq(S), NEW keep
    PROVE  Sch!Filter(s, keep) \in Seq(S)
<1> DEFINE J(i) == {j \in 1..i : s[j] \in keep}
           c(i) == Sch!KeptUpTo(i, s, keep)
<1>0. Len(s) \in Nat /\ \A i \in 1..Len(s) : s[i] \in S
  OBVIOUS
<1>1. ASSUME NEW i \in 0..Len(s) PROVE IsFiniteSet(J(i)) /\ c(i) = Cardinality(J(i)) /\ c(i) \in Nat
  <2>1. IsFiniteSet(1..i)
    BY <1>0, FS_Interval
  <2>2. c(i) = Cardinality(J(i))
    BY SchedulerFinite, Zenon DEF Sch!KeptUpTo
  <2> HIDE DEF c
  <2>3. IsFiniteSet(J(i))
    BY <2>1, FS_Subset
  <2> QED
    BY <2>2, <2>3, FS_CardinalityType
<1>2. c(0) = 0
  <2>1. J(0) = {}
    OBVIOUS
  <2> QED
    BY <1>0, <1>1, <2>1, FS_EmptySet
<1>3. ASSUME NEW i \in 1..Len(s) PROVE c(i) = IF s[i] \in keep THEN c(i - 1) + 1 ELSE c(i - 1)
  <2>1. i - 1 \in 0..Len(s) /\ i \in 0..Len(s) /\ i \notin J(i - 1)
    BY <1>0
  <2>2. J(i) = IF s[i] \in keep THEN J(i - 1) \cup {i} ELSE J(i - 1)
    BY <1>0
  <2>3. IsFiniteSet(J(i - 1)) /\ c(i - 1) = Cardinality(J(i - 1)) /\ c(i) = Cardinality(J(i))
    BY <1>1, <2>1
  <2> HIDE DEF J, c
  <2>4. Cardinality(J(i - 1) \cup {i}) = Cardinality(J(i - 1)) + 1
    BY <2>1, <2>3, FS_AddElement
  <2> QED
    BY <2>2, <2>3, <2>4
<1>4. ASSUME NEW m \in 1..c(Len(s)) PROVE \E i \in 1..Len(s) : s[i] \in keep /\ c(i) = m
  <2> DEFINE T == {i \in 1..Len(s) : c(i) >= m}
  <2>c. \A i \in 0..Len(s) : c(i) \in Nat
    BY <1>1
  <2> HIDE DEF c
  <2>1. Len(s) \in T
    BY <1>0, <1>2, <2>c
  <2>0. T \in SUBSET Nat /\ T # {}
    BY <2>1, <1>0
  <2> HIDE DEF T
  <2>2. PICK i \in T : \A k \in T : i <= k
    BY <2>0, Least
  <2> USE DEF T
  <2>3. i - 1 \in 0..Len(s) /\ c(i - 1) < m
    BY <1>0, <1>2, <2>2, <2>c
  <2>4. s[i] \in keep /\ c(i) = m
    BY <1>0, <1>3, <2>2, <2>3, <2>c
  <2> QED
    BY <2>4
<1>5. c(Len(s)) \in Nat
  <2>1. Len(s) \in 0..Len(s)
    BY <1>0
  <2> QED
    BY <1>1, <2>1
<1> HIDE DEF c
<1> DEFINE at(m) == CHOOSE i \in 1..Len(s) : s[i] \in keep /\ c(i) = m
<1>6. Sch!Filter(s, keep) = [m \in 1..c(Len(s)) |-> s[at(m)]]
  BY DEF Sch!Filter, c
<1>7. \A m \in 1..c(Len(s)) : at(m) \in 1..Len(s)
  BY <1>4
<1> HIDE DEF at
<1>8. \A m \in 1..c(Len(s)) : s[at(m)] \in S
  BY <1>0, <1>7
<1> QED
  BY <1>5, <1>6, <1>8

\* There is an array to which no slice refers.
LEMMA SchedulerFresh == Sch!Fresh \in Arrays
<1> DEFINE B == {f \in Sch!Fires : schFires[f] # Sch!Idle}
           a == [f \in B |-> schFires[f].hosts.array]
           T == {a[f] : f \in B}
           U == (T \cup {schTask.hosts.array}) \cup {schEdit.hosts.array}
<1>c. MaxFires \in Nat /\ IsFiniteSet(Arrays) /\ Cardinality(Arrays) > MaxFires + 2
  BY PartsAssumption, SchedulerFinite DEF Sch!SchedulerAssumption
<1>1. IsFiniteSet(B) /\ Cardinality(B) <= MaxFires /\ Cardinality(B) \in Nat
  <2>1. IsFiniteSet(1..MaxFires) /\ Cardinality(1..MaxFires) = MaxFires
    BY <1>c, FS_Interval
  <2>2. B \in SUBSET (1..MaxFires)
    BY DEF Sch!Fires
  <2> HIDE DEF B
  <2> QED
    BY <2>1, <2>2, FS_Subset, FS_CardinalityType
<1>2. IsFiniteSet(T) /\ Cardinality(T) <= Cardinality(B) /\ Cardinality(T) \in Nat
  <2>1. a \in Surjection(B, T)
    BY DEF Surjection
  <2> HIDE DEF a, T, B
  <2> QED
    BY <1>1, <2>1, FS_Surjection, FS_CardinalityType
<1> HIDE DEF T
<1>3. IsFiniteSet(U) /\ Cardinality(U) \in Nat /\ Cardinality(U) <= MaxFires + 2
  <2> HIDE DEF B
  <2>1. ASSUME NEW V, NEW x, IsFiniteSet(V)
        PROVE  /\ IsFiniteSet(V \cup {x}) /\ Cardinality(V \cup {x}) \in Nat
               /\ Cardinality(V \cup {x}) <= Cardinality(V) + 1
    <3>1. IsFiniteSet(V \cup {x}) /\ Cardinality(V) \in Nat
      BY <2>1, FS_AddElement, FS_CardinalityType
    <3>2. Cardinality(V \cup {x}) = IF x \in V THEN Cardinality(V) ELSE Cardinality(V) + 1
      BY <2>1, FS_AddElement
    <3> QED
      BY <3>1, <3>2, FS_CardinalityType
  <2> DEFINE V == T \cup {schTask.hosts.array}
  <2>2. IsFiniteSet(V) /\ Cardinality(V) \in Nat /\ Cardinality(V) <= Cardinality(T) + 1
    BY <1>2, <2>1
  <2> HIDE DEF V
  <2>3. U = V \cup {schEdit.hosts.array}
    BY DEF V
  <2> HIDE DEF U
  <2>4. IsFiniteSet(U) /\ Cardinality(U) \in Nat /\ Cardinality(U) <= Cardinality(V) + 1
    BY <2>1, <2>2, <2>3
  <2> QED
    BY <1>c, <1>1, <1>2, <2>2, <2>4
<1>4. PICK x \in Arrays : x \notin U
  <2> HIDE DEF U
  <2>1. Arrays \in SUBSET U => Cardinality(Arrays) <= Cardinality(U)
    BY <1>3, FS_Subset
  <2>2. Cardinality(Arrays) \in Nat
    BY <1>c, FS_CardinalityType
  <2> QED
    BY <1>c, <1>3, <2>1, <2>2
<1>5. \A f \in Sch!Fires : schFires[f] # Sch!Idle => schFires[f].hosts.array \in U
  BY DEF T
<1> QED
  BY <1>4, <1>5 DEF Sch!Fresh

Tasks == Sch!TaskType(Sch!Slices)
Filed == Sch!TaskType(Seq(Targets))
Runs == [pc : {"next", "wait", "called"}, hosts : Sch!Slices, at : Nat \ {0},
         ok : BOOLEAN, failed : BOOLEAN, sent : BOOLEAN]

\* A task, of which no more is visible than there is.
Holds(t) ==
    \/ t = Sch!NoTask
    \/ t \in Tasks /\ t.hosts.len <= Len(t.hosts.room)

HostsTyped == schSeen \subseteq schListed /\ schListed \subseteq Targets /\ schPruning \subseteq Targets \ schListed
CountsTyped == /\ schNow \in 1..MaxTime /\ schRung \in 0..MaxTime
               /\ schEdits \in 0..MaxEdits /\ schCrashes \in 0..MaxCrashes
TaskTyped == Holds(schTask) /\ schFile \in Filed \cup {Sch!NoTask}
RunsTyped == /\ schFires \in [Sch!Fires -> {Sch!Idle} \cup Runs]
             /\ \A f \in Sch!Fires : schFires[f].pc \in {"wait", "called"} => schFires[f].at <= schFires[f].hosts.len

(* The types, and what TypeOK leaves open: the list of a PUT's copy, which   *)
(* becomes the task's.                                                       *)
SchedulerTypes == HostsTyped /\ CountsTyped /\ TaskTyped /\ RunsTyped /\ Holds(schEdit)

LEMMA SchedulerBounds ==
    /\ {Period, Retry, MaxTime} \subseteq Nat \ {0} /\ {MaxEdits, MaxCrashes} \subseteq Nat
    /\ Gated \subseteq Targets
    /\ \A body \in Bodies : /\ body.hosts \in Seq(Targets) /\ body.misfire \in Sch!Policies
                            /\ body.enabled \in BOOLEAN /\ body.optIn \in BOOLEAN
  BY PartsAssumption DEF Sch!SchedulerAssumption

LEMMA SchedulerTaskIs ==
    ASSUME NEW t \in Tasks
    PROVE  /\ t # Sch!NoTask
           /\ t.hosts \in Sch!Slices /\ t.hosts.room \in Seq(Targets) /\ t.hosts.len \in Nat
           /\ t.next \in Nat /\ t.misfire \in Sch!Policies
  BY DEF Tasks, Sch!TaskType, Sch!Slices, Sch!NoTask

LEMMA SchedulerTyped == SchedulerTypes => Sch!TypeOK
<1> SUFFICES ASSUME SchedulerTypes PROVE Sch!TypeOK
  OBVIOUS
<1>1. schTask \in Tasks \cup {Sch!NoTask} /\ schEdit \in Tasks \cup {Sch!NoTask}
  BY DEF SchedulerTypes, TaskTyped, Holds
<1>2. Sch!Stored => schTask.hosts.len <= Len(schTask.hosts.room)
  BY DEF SchedulerTypes, TaskTyped, Holds, Sch!Stored
<1> QED
  BY <1>1, <1>2 DEF SchedulerTypes, HostsTyped, CountsTyped, TaskTyped, RunsTyped, Tasks, Filed, Runs,
     Sch!TypeOK, Sch!NoEdit

LEMMA SchedulerSlotTyped == ASSUME NEW t \in 1..MaxTime PROVE Sch!NextSlot(t) \in 1..(MaxTime + Period + Retry)
<1> DEFINE q == t \div Period
           r == t % Period
<1>1. Period \in Nat \ {0} /\ Retry \in Nat /\ MaxTime \in Nat
  BY SchedulerBounds
<1>2. q \in Nat /\ r \in 0..(Period - 1) /\ t = q * Period + r
  BY <1>1
<1>3. (q + 1) * Period = q * Period + Period /\ q * Period \in Nat
  BY <1>1, <1>2
<1> HIDE DEF q, r
<1> QED
  BY <1>1, <1>2, <1>3 DEF Sch!NextSlot, q

\* What is visible of a task is what its file has of it.
LEMMA SchedulerOnFile ==
    ASSUME Holds(schTask'), Sch!Save
    PROVE  TaskTyped'
<1>1. CASE schTask' = Sch!NoTask
  BY <1>1 DEF TaskTyped, Sch!Save, Sch!OnDisk
<1>2. CASE schTask' \in Tasks /\ schTask'.hosts.len <= Len(schTask'.hosts.room)
  <2> DEFINE t == schTask'
             ids == Sch!HostIDs(t.hosts)
  <2>1. t # Sch!NoTask /\ t.hosts.room \in Seq(Targets) /\ t.hosts.len \in Nat
    BY <1>2, SchedulerTaskIs
  <2>2. ids \in Seq(Targets)
    BY <1>2, <2>1 DEF Sch!HostIDs
  <2>3. schFile' = [t EXCEPT !.hosts = ids]
    BY <2>1 DEF Sch!Save, Sch!OnDisk
  <2> HIDE DEF ids
  <2>4. [t EXCEPT !.hosts = ids] \in Filed
    BY <1>2, <2>2 DEF Tasks, Filed, Sch!TaskType
  <2> QED
    BY <2>3, <2>4 DEF TaskTyped
<1> QED
  BY <1>1, <1>2 DEF Holds

\* The list of a task that loses hosts.
LEMMA SchedulerPruned ==
    ASSUME NEW a \in Arrays, NEW old \in Seq(Targets), NEW keep
    PROVE  LET s == Sch!Pruned(a, old, Sch!Filter(old, keep)) IN s \in Sch!Slices /\ s.len <= Len(s.room)
<1> DEFINE kept == Sch!Filter(old, keep)
           rest == SubSeq(old, Len(kept) + 1, Len(old))
<1>1. kept \in Seq(Targets)
  BY FilterTyped
<1> HIDE DEF kept
<1>2. Len(kept) \in Nat /\ rest \in Seq(Targets)
  BY <1>1
<1> HIDE DEF rest
<1>3. kept \o rest \in Seq(Targets) /\ Len(kept \o rest) = Len(kept) + Len(rest) /\ Len(rest) \in Nat
  BY <1>1, <1>2
<1>4. Sch!Pruned(a, old, kept) = [array |-> a, room |-> kept \o rest, len |-> Len(kept)]
  BY DEF Sch!Pruned, Sch!Slice, rest
<1> QED
  BY <1>2, <1>3, <1>4 DEF Sch!Slices, kept

\* A step that leaves the hosts, the bounds and the runs alone.
LEMMA SchedulerTypesOf ==
    ASSUME SchedulerTypes, TaskTyped', Holds(schEdit)', RunsTyped', HostsTyped', CountsTyped'
    PROVE  SchedulerTypes'
  BY DEF SchedulerTypes

LEMMA SchedulerRests ==
    ASSUME SchedulerTypes
    PROVE  /\ UNCHANGED <<schListed, schSeen, schPruning>> => HostsTyped'
           /\ UNCHANGED <<schNow, schRung, schEdits, schCrashes>> => CountsTyped'
           /\ UNCHANGED <<schTask, schFile>> => TaskTyped'
           /\ UNCHANGED schFires => RunsTyped'
           /\ UNCHANGED schEdit => Holds(schEdit)'
  BY DEF SchedulerTypes, HostsTyped, CountsTyped, TaskTyped, RunsTyped, Holds

\* A task with another outcome, or none, for the same or another slot.
LEMMA SchedulerMarks ==
    ASSUME NEW t \in Tasks, t.hosts.len <= Len(t.hosts.room),
           NEW n \in 1..(MaxTime + Period + Retry), NEW st \in Sch!Status, NEW err \in BOOLEAN
    PROVE  /\ Holds([t EXCEPT !.next = n, !.status = st, !.err = err])
           /\ Holds([t EXCEPT !.status = st, !.err = err])
           /\ Holds([t EXCEPT !.err = err, !.status = st])
           /\ Holds([t EXCEPT !.next = n, !.status = st])
           /\ Holds([t EXCEPT !.status = st])
           /\ Holds([t EXCEPT !.next = n])
  BY DEF Holds, Tasks, Sch!TaskType

\* A run starts with the task's list.
LEMMA SchedulerStartTyped ==
    ASSUME SchedulerTypes, NEW f \in Sch!Fires, Sch!Start(f), schTask \in Tasks
    PROVE  RunsTyped'
<1> DEFINE run == [pc |-> "next", hosts |-> schTask.hosts, at |-> 1, ok |-> TRUE,
                   failed |-> FALSE, sent |-> FALSE]
<1>1. run \in Runs /\ run.pc = "next"
  BY SchedulerTaskIs DEF Runs
<1>2. schFires' = [schFires EXCEPT ![f] = run]
  BY DEF Sch!Start
<1> HIDE DEF run
<1> QED
  BY <1>1, <1>2 DEF SchedulerTypes, RunsTyped

LEMMA SchedulerTypesOutside ==
    ASSUME SchedulerTypes,
           Sch!Elapse \/ \E h \in Targets : Sch!Connect(h) \/ Sch!RemoveHost(h) \/ Sch!PruneHosts(h)
    PROVE  SchedulerTypes'
<1>1. CASE Sch!Elapse
  <2>1. CountsTyped'
    BY <1>1, SchedulerBounds DEF Sch!Elapse, SchedulerTypes, CountsTyped, Sch!boundVars
  <2> QED
    BY <1>1, <2>1, SchedulerRests, SchedulerTypesOf DEF Sch!Elapse, Sch!hostVars, Sch!taskVars
<1>2. ASSUME NEW h \in Targets, Sch!Connect(h) \/ Sch!RemoveHost(h) PROVE SchedulerTypes'
  <2>1. HostsTyped'
    BY <1>2 DEF Sch!Connect, Sch!RemoveHost, SchedulerTypes, HostsTyped
  <2>2. UNCHANGED <<schNow, schRung, schEdits, schCrashes, schTask, schFile, schFires, schEdit>>
    BY <1>2 DEF Sch!Connect, Sch!RemoveHost, Sch!taskVars, Sch!boundVars
  <2> QED
    BY <2>1, <2>2, SchedulerRests, SchedulerTypesOf
<1>3. ASSUME NEW h \in Targets, Sch!PruneHosts(h) PROVE SchedulerTypes'
  <2> DEFINE old == Sch!HostIDs(schTask.hosts)
             kept == Sch!Filter(old, Targets \ {h})
             s == Sch!Pruned(Sch!Fresh, old, kept)
  <2>1. HostsTyped'
    BY <1>3 DEF Sch!PruneHosts, SchedulerTypes, HostsTyped
  <2>2. UNCHANGED <<schNow, schRung, schEdits, schCrashes, schFires, schEdit>>
    BY <1>3 DEF Sch!PruneHosts, Sch!boundVars
  <2>3. TaskTyped'
    <3>1. CASE UNCHANGED <<schTask, schFile>>
      BY <3>1, SchedulerRests
    <3>2. CASE /\ schTask # Sch!NoTask /\ Sch!Save
               /\ schTask' = [schTask EXCEPT !.hosts = s, !.enabled = @ /\ kept # <<>>]
      <4>1. schTask \in Tasks /\ schTask.hosts.len <= Len(schTask.hosts.room)
        BY <3>2 DEF SchedulerTypes, TaskTyped, Holds
      <4>2. old \in Seq(Targets)
        BY <4>1, SchedulerTaskIs DEF Sch!HostIDs
      <4>3. s \in Sch!Slices /\ s.len <= Len(s.room)
        BY <4>2, SchedulerFresh, SchedulerPruned
      <4> DEFINE some == kept # <<>>
      <4> HIDE DEF s, some
      <4>4. schTask' = [schTask EXCEPT !.hosts = s, !.enabled = schTask.enabled /\ some]
        BY <3>2, <4>1 DEF some
      <4>5. some \in BOOLEAN
        BY DEF some
      <4>6. schTask' \in Tasks /\ schTask'.hosts = s
        BY <4>1, <4>3, <4>4, <4>5 DEF Tasks, Sch!TaskType
      <4> QED
        BY <3>2, <4>3, <4>6, SchedulerOnFile DEF Holds
    <3> QED
      BY <1>3, <3>1, <3>2 DEF Sch!PruneHosts, Sch!PruneTo, Sch!Stored, Sch!taskVars
  <2> QED
    BY <2>1, <2>2, <2>3, SchedulerRests, SchedulerTypesOf
<1> QED
  BY <1>1, <1>2, <1>3

LEMMA SchedulerTypesCreate ==
    ASSUME SchedulerTypes, NEW body \in Bodies, Sch!Create(body)
    PROVE  SchedulerTypes'
<1> DEFINE s == Sch!Slice(Sch!Fresh, body.hosts, Len(body.hosts))
           t == [hosts |-> s, misfire |-> body.misfire,
                 optIn |-> body.optIn, enabled |-> body.enabled, next |-> Sch!NextSlot(schNow),
                 status |-> "", err |-> FALSE]
<1>1. s \in Sch!Slices /\ s.len <= Len(s.room)
  BY SchedulerFresh, SchedulerBounds DEF Sch!Slice, Sch!Slices
<1>2. schTask' = t /\ Sch!Save
  BY DEF Sch!Create
<1>3. Sch!NextSlot(schNow) \in 1..(MaxTime + Period + Retry)
  BY SchedulerSlotTyped DEF SchedulerTypes, CountsTyped
<1> HIDE DEF s
<1>4. t \in Tasks /\ t.hosts = s
  BY <1>1, <1>3, SchedulerBounds DEF Tasks, Sch!TaskType, Sch!Status
<1>5. TaskTyped'
  BY <1>1, <1>2, <1>4, SchedulerOnFile DEF Holds
<1> QED
  BY <1>5, SchedulerRests, SchedulerTypesOf DEF Sch!Create, Sch!hostVars, Sch!boundVars

\* json.Decode writes over what it finds, and never makes a list shorter than it was.
LEMMA SchedulerTypesDecode ==
    ASSUME SchedulerTypes, NEW body \in Bodies, Sch!DecodeEdit(body)
    PROVE  SchedulerTypes'
<1> DEFINE old == schTask.hosts
           n == Len(body.hosts)
           room == [i \in 1..Len(old.room) |-> IF i <= n THEN body.hosts[i] ELSE old.room[i]]
           Over(s) == IF s.array = old.array THEN [s EXCEPT !.room = room] ELSE s
           new == IF n <= Len(room) THEN Sch!Slice(old.array, room, n)
                  ELSE Sch!Slice(Sch!Fresh, body.hosts, n)
<1>1. schTask \in Tasks /\ schTask.hosts.len <= Len(schTask.hosts.room)
  BY DEF SchedulerTypes, TaskTyped, Holds, Sch!DecodeEdit, Sch!Stored
<1>2. old \in Sch!Slices /\ old.room \in Seq(Targets) /\ old.len \in Nat /\ old.array \in Arrays
  BY <1>1, SchedulerTaskIs DEF Sch!Slices
<1>3. body.hosts \in Seq(Targets) /\ n \in Nat /\ body.misfire \in Sch!Policies
        /\ body.enabled \in BOOLEAN /\ body.optIn \in BOOLEAN
  BY SchedulerBounds
<1>a. /\ schTask' = [schTask EXCEPT !.hosts = Over(@)]
      /\ schFires' = [f \in Sch!Fires |-> IF schFires[f] = Sch!Idle THEN Sch!Idle
                                          ELSE [schFires[f] EXCEPT !.hosts = Over(@)]]
      /\ schEdit' = IF ~Sch!Valid(body) THEN Sch!NoEdit
                    ELSE [schTask EXCEPT !.hosts = new, !.misfire = body.misfire,
                                         !.enabled = body.enabled, !.optIn = body.optIn]
      /\ schEdits' = schEdits + 1 /\ schEdits < MaxEdits
      /\ UNCHANGED <<schNow, schListed, schSeen, schPruning, schFile, schRung, schCrashes>>
  BY DEF Sch!DecodeEdit, Sch!hostVars
<1>4. room \in Seq(Targets) /\ Len(room) = Len(old.room) /\ Len(room) \in Nat
  BY <1>2, <1>3
<1>5. new \in Sch!Slices /\ new.len <= Len(new.room)
  BY <1>2, <1>3, <1>4, SchedulerFresh DEF Sch!Slice, Sch!Slices
<1> HIDE DEF room, new
<1>6. ASSUME NEW s \in Sch!Slices
      PROVE  Over(s) \in Sch!Slices /\ Over(s).len = s.len /\ (s = old => Over(s).room = room)
  BY <1>4, <1>6 DEF Sch!Slices
<1> HIDE DEF Over
<1>7. TaskTyped'
  <2> DEFINE s == Over(old)
  <2>1. schTask' = [schTask EXCEPT !.hosts = s]
    BY <1>a, <1>1
  <2>2. s \in Sch!Slices /\ s.len <= Len(s.room)
    BY <1>1, <1>2, <1>4, <1>6
  <2> HIDE DEF s
  <2>3. schTask' \in Tasks /\ schTask'.hosts = s
    BY <1>1, <2>1, <2>2 DEF Tasks, Sch!TaskType
  <2> QED
    BY <1>a, <2>2, <2>3 DEF SchedulerTypes, TaskTyped, Holds
<1>8. RunsTyped'
  <2>1. ASSUME NEW f \in Sch!Fires, schFires[f] \in Runs
        PROVE  LET s == Over(schFires[f].hosts) IN
               /\ [schFires[f] EXCEPT !.hosts = s] \in Runs
               /\ [schFires[f] EXCEPT !.hosts = s].pc = schFires[f].pc
               /\ [schFires[f] EXCEPT !.hosts = s].at = schFires[f].at
               /\ [schFires[f] EXCEPT !.hosts = s].hosts.len = schFires[f].hosts.len
    <3> DEFINE s == Over(schFires[f].hosts)
    <3>1. schFires[f].hosts \in Sch!Slices
      BY <2>1 DEF Runs
    <3>2. s \in Sch!Slices /\ s.len = schFires[f].hosts.len
      BY <1>6, <3>1
    <3> HIDE DEF s
    <3> QED
      BY <2>1, <3>2 DEF Runs, s
  <2>2. ASSUME NEW f \in Sch!Fires
        PROVE  /\ schFires'[f] \in {Sch!Idle} \cup Runs
               /\ schFires'[f].pc \in {"wait", "called"} => schFires'[f].at <= schFires'[f].hosts.len
    <3>1. CASE schFires[f] = Sch!Idle
      BY <1>a, <3>1 DEF Sch!Idle
    <3>2. CASE schFires[f] # Sch!Idle
      <4>1. /\ schFires[f] \in Runs
            /\ schFires[f].pc \in {"wait", "called"} => schFires[f].at <= schFires[f].hosts.len
        BY <3>2 DEF SchedulerTypes, RunsTyped
      <4>2. schFires'[f] = [schFires[f] EXCEPT !.hosts = Over(schFires[f].hosts)]
        BY <1>a, <3>2, <4>1
      <4> QED
        BY <2>1, <4>1, <4>2
    <3> QED
      BY <3>1, <3>2
  <2>3. schFires' = [f \in Sch!Fires |-> schFires'[f]]
    BY <1>a
  <2> QED
    BY <2>2, <2>3 DEF RunsTyped
<1>9. Holds(schEdit)'
  <2>1. CASE ~Sch!Valid(body)
    BY <1>a, <2>1 DEF Holds, Sch!NoEdit, Sch!NoTask
  <2>2. CASE Sch!Valid(body)
    <3>1. schEdit' \in Tasks /\ schEdit'.hosts = new
      BY <1>a, <1>1, <1>3, <1>5, <2>2 DEF Tasks, Sch!TaskType
    <3> QED
      BY <1>5, <3>1 DEF Holds
  <2> QED
    BY <2>1, <2>2
<1>10. CountsTyped'
  BY <1>a, SchedulerBounds DEF SchedulerTypes, CountsTyped
<1> QED
  BY <1>a, <1>7, <1>8, <1>9, <1>10, SchedulerRests, SchedulerTypesOf

LEMMA SchedulerTypesEdit ==
    ASSUME SchedulerTypes, Sch!Update \/ Sch!Delete
    PROVE  SchedulerTypes'
<1>1. CASE Sch!Update
  <2>1. Holds(schTask)'
    <3>1. CASE schTask = Sch!NoTask
      BY <1>1, <3>1 DEF Sch!Update, Sch!Stored, Holds, Sch!NoTask
    <3>2. CASE schTask # Sch!NoTask
      <4>1. schTask \in Tasks /\ schEdit \in Tasks /\ schEdit.hosts.len <= Len(schEdit.hosts.room)
        BY <1>1, <3>2 DEF SchedulerTypes, TaskTyped, Holds, Sch!Update, Sch!NoEdit
      <4>2. schTask.status \in Sch!Status /\ schTask.err \in BOOLEAN
        BY <4>1 DEF Tasks, Sch!TaskType
      <4>3. Sch!NextSlot(schNow) \in 1..(MaxTime + Period + Retry)
        BY SchedulerSlotTyped DEF SchedulerTypes, CountsTyped
      <4> QED
        BY <1>1, <3>2, <4>1, <4>2, <4>3, SchedulerMarks DEF Sch!Update, Sch!Stored
    <3> QED
      BY <3>1, <3>2
  <2>2. TaskTyped'
    BY <1>1, <2>1, SchedulerOnFile DEF Sch!Update
  <2>3. Holds(schEdit)'
    BY <1>1 DEF Sch!Update, Holds, Sch!NoEdit, Sch!NoTask
  <2> QED
    BY <1>1, <2>2, <2>3, SchedulerRests, SchedulerTypesOf DEF Sch!Update, Sch!hostVars, Sch!boundVars
<1>2. CASE Sch!Delete
  <2>1. TaskTyped'
    <3>1. Holds(schTask)' /\ Sch!Save
      BY <1>2 DEF Sch!Delete, Holds, Sch!NoTask
    <3> QED
      BY <3>1, SchedulerOnFile
  <2>2. CountsTyped'
    BY <1>2, SchedulerBounds DEF Sch!Delete, SchedulerTypes, CountsTyped
  <2> QED
    BY <1>2, <2>1, <2>2, SchedulerRests, SchedulerTypesOf DEF Sch!Delete, Sch!hostVars
<1> QED
  BY <1>1, <1>2

LEMMA SchedulerTypesTick ==
    ASSUME SchedulerTypes,
           \/ Sch!TickRearm \/ Sch!TickSkip
           \/ \E f \in Sch!Fires : Sch!RunNow(f) \/ Sch!TickRun(f)
    PROVE  SchedulerTypes'
<1>1. schTask \in Tasks /\ schTask.hosts.len <= Len(schTask.hosts.room)
  BY DEF SchedulerTypes, TaskTyped, Holds, Sch!TickRearm, Sch!TickSkip, Sch!RunNow, Sch!TickRun,
     Sch!Due, Sch!Stored
<1>2. /\ Sch!NextSlot(schNow) \in 1..(MaxTime + Period + Retry)
      /\ schNow + Retry \in 1..(MaxTime + Period + Retry)
      /\ schNow \in 1..MaxTime
  BY SchedulerSlotTyped, SchedulerBounds DEF SchedulerTypes, CountsTyped
<1>3. {"", "skipped"} \subseteq Sch!Status
  BY DEF Sch!Status
<1>4. schTask.status \in Sch!Status /\ schTask.err \in BOOLEAN /\ schTask.next \in Nat
  BY <1>1, SchedulerTaskIs DEF Tasks, Sch!TaskType
<1>5. CASE Sch!TickRearm \/ Sch!TickSkip
  <2>1. Holds(schTask')
    <3>1. ASSUME NEW n \in 1..(MaxTime + Period + Retry)
          PROVE  Holds([schTask EXCEPT !.next = n]) /\ Holds([schTask EXCEPT !.next = n, !.status = "skipped"])
      BY <1>1, <1>3, <1>4, SchedulerMarks
    <3>2. CASE Sch!TickRearm
      BY <1>2, <3>1, <3>2 DEF Sch!TickRearm
    <3>3. CASE Sch!TickSkip
      BY <1>2, <3>1, <3>3 DEF Sch!TickSkip
    <3> QED
      BY <1>5, <3>2, <3>3
  <2>2. Holds(schTask)'
    BY <2>1 DEF Holds, Sch!NoTask
  <2>3. TaskTyped'
    BY <1>5, <2>2, SchedulerOnFile DEF Sch!TickRearm, Sch!TickSkip
  <2> QED
    BY <1>5, <2>3, SchedulerRests, SchedulerTypesOf
       DEF Sch!TickRearm, Sch!TickSkip, Sch!hostVars, Sch!boundVars
<1>6. ASSUME NEW f \in Sch!Fires, Sch!RunNow(f) \/ Sch!TickRun(f) PROVE SchedulerTypes'
  <2>1. Holds(schTask')
    <3>1. ASSUME NEW n \in 1..(MaxTime + Period + Retry)
          PROVE  /\ Holds([schTask EXCEPT !.next = n, !.status = "", !.err = FALSE])
                 /\ Holds([schTask EXCEPT !.status = "", !.err = FALSE])
      BY <1>1, <1>3, SchedulerMarks
    <3>2. CASE Sch!RunNow(f)
      BY <1>2, <3>1, <3>2 DEF Sch!RunNow
    <3>3. CASE Sch!TickRun(f)
      BY <1>2, <3>1, <3>3 DEF Sch!TickRun
    <3> QED
      BY <1>6, <3>2, <3>3
  <2>2. Holds(schTask)'
    BY <2>1 DEF Holds, Sch!NoTask
  <2>3. TaskTyped'
    BY <1>6, <2>2, SchedulerOnFile DEF Sch!RunNow, Sch!TickRun
  <2>4. RunsTyped'
    BY <1>1, <1>6, SchedulerStartTyped DEF Sch!RunNow, Sch!TickRun
  <2>5. CountsTyped'
    <3>1. CASE Sch!RunNow(f)
      BY <3>1, SchedulerBounds DEF Sch!RunNow, SchedulerTypes, CountsTyped
    <3>2. CASE Sch!TickRun(f)
      <4>1. schRung' = schTask.next /\ schTask.next <= schNow
        BY <3>2 DEF Sch!TickRun, Sch!Due
      <4> QED
        BY <3>2, <4>1, <1>2, <1>4, SchedulerBounds
           DEF Sch!TickRun, SchedulerTypes, CountsTyped, Sch!boundVars
    <3> QED
      BY <1>6, <3>1, <3>2
  <2> QED
    BY <1>6, <2>3, <2>4, <2>5, SchedulerRests, SchedulerTypesOf DEF Sch!RunNow, Sch!TickRun, Sch!hostVars
<1> QED
  BY <1>5, <1>6

\* What a run does to its own record.
LEMMA SchedulerRunTyped ==
    ASSUME SchedulerTypes, NEW f \in Sch!Fires, NEW run,
           run = Sch!Idle \/ run \in Runs,
           run.pc \in {"wait", "called"} => run.at <= run.hosts.len,
           schFires' = [schFires EXCEPT ![f] = run]
    PROVE  RunsTyped'
  BY DEF SchedulerTypes, RunsTyped

\* The run goes on with the next host.
LEMMA SchedulerOnward ==
    ASSUME NEW run \in Runs
    PROVE  /\ [run EXCEPT !.at = @ + 1] \in Runs /\ [run EXCEPT !.at = @ + 1].pc = run.pc
           /\ [run EXCEPT !.pc = "next", !.at = @ + 1] \in Runs
           /\ [run EXCEPT !.pc = "next", !.at = @ + 1].pc = "next"
<1> DEFINE n == run.at + 1
<1>1. n \in Nat \ {0}
  BY DEF Runs
<1>2. /\ [run EXCEPT !.at = @ + 1] = [run EXCEPT !.at = n]
      /\ [run EXCEPT !.pc = "next", !.at = @ + 1] = [run EXCEPT !.pc = "next", !.at = n]
  BY DEF Runs
<1> HIDE DEF n
<1>3. [run EXCEPT !.at = n] \in Runs /\ [run EXCEPT !.pc = "next", !.at = n] \in Runs
  BY <1>1 DEF Runs
<1> QED
  BY <1>2, <1>3 DEF Runs

LEMMA SchedulerTypesRun ==
    ASSUME SchedulerTypes, NEW f \in Sch!Fires,
           Sch!NextHost(f) \/ Sch!Dispatch(f) \/ Sch!Record(f) \/ Sch!FinishFire(f)
    PROVE  SchedulerTypes'
<1> DEFINE run == schFires[f]
<1>1. run \in Runs /\ (run.pc \in {"wait", "called"} => run.at <= run.hosts.len)
  <2>1. run.pc # "idle"
    BY DEF Sch!NextHost, Sch!Dispatch, Sch!Record, Sch!FinishFire
  <2>2. run \in {Sch!Idle} \cup Runs /\ (run.pc \in {"wait", "called"} => run.at <= run.hosts.len)
    BY DEF SchedulerTypes, RunsTyped
  <2> QED
    BY <2>1, <2>2 DEF Sch!Idle
<1>2. /\ run.at \in Nat \ {0} /\ run.hosts.len \in Nat /\ run.failed \in BOOLEAN /\ run.sent \in BOOLEAN
      /\ run.ok \in BOOLEAN /\ f \in DOMAIN schFires
  BY <1>1 DEF Runs, Sch!Slices, SchedulerTypes, RunsTyped
<1>3. CASE Sch!NextHost(f)
  <2> DEFINE r == IF Sch!Target(f) \in schListed THEN [run EXCEPT !.pc = "wait", !.sent = TRUE]
                  ELSE [run EXCEPT !.at = @ + 1]
  <2>1. run.pc = "next" /\ run.at <= run.hosts.len
    BY <1>3 DEF Sch!NextHost
  <2>2. r \in Runs /\ (r.pc \in {"wait", "called"} => r.at <= r.hosts.len)
    <3>1. CASE Sch!Target(f) \in schListed
      BY <1>1, <1>2, <2>1, <3>1 DEF Runs
    <3>2. CASE Sch!Target(f) \notin schListed
      BY <1>1, <1>2, <2>1, <3>2, SchedulerOnward
    <3> QED
      BY <3>1, <3>2
  <2>3. schFires' = [schFires EXCEPT ![f] = r]
    BY <1>3, <1>2 DEF Sch!NextHost
  <2> HIDE DEF r
  <2>4. RunsTyped'
    BY <2>2, <2>3, SchedulerRunTyped
  <2> QED
    BY <1>3, <2>4, SchedulerRests, SchedulerTypesOf DEF Sch!NextHost, Sch!hostVars, Sch!taskVars, Sch!boundVars
<1>4. CASE Sch!Dispatch(f)
  <2>1. PICK ok \in BOOLEAN :
           schFires' = [schFires EXCEPT ![f].pc = "called", ![f].ok = ok, ![f].failed = @ \/ ~ok]
    BY <1>4 DEF Sch!Dispatch
  <2> DEFINE bad == run.failed \/ ~ok
             r == [run EXCEPT !.pc = "called", !.ok = ok, !.failed = bad]
  <2>2. bad \in BOOLEAN
    BY <1>2
  <2>3. schFires' = [schFires EXCEPT ![f] = r]
    BY <2>1, <1>1, <1>2 DEF Runs
  <2>4. run.pc = "wait"
    BY <1>4 DEF Sch!Dispatch
  <2> HIDE DEF bad
  <2>5. r \in Runs /\ r.at <= r.hosts.len
    BY <1>1, <1>2, <2>2, <2>4 DEF Runs
  <2> HIDE DEF r
  <2>6. RunsTyped'
    BY <2>3, <2>5, SchedulerRunTyped
  <2> QED
    BY <1>4, <2>6, SchedulerRests, SchedulerTypesOf DEF Sch!Dispatch, Sch!hostVars, Sch!taskVars, Sch!boundVars
<1>5. CASE Sch!Record(f)
  <2> DEFINE r == [run EXCEPT !.pc = "next", !.at = @ + 1]
  <2>1. schFires' = [schFires EXCEPT ![f] = r]
    BY <1>5, <1>2 DEF Sch!Record
  <2>2. r \in Runs /\ r.pc = "next"
    BY <1>1, SchedulerOnward
  <2> HIDE DEF r
  <2>3. RunsTyped'
    BY <2>1, <2>2, SchedulerRunTyped
  <2>4. TaskTyped'
    <3>1. CASE schTask = Sch!NoTask
      BY <1>5, <3>1, SchedulerRests DEF Sch!Record, Sch!Stored, Sch!taskVars
    <3>2. CASE schTask # Sch!NoTask
      <4>1. schTask \in Tasks /\ schTask.hosts.len <= Len(schTask.hosts.room)
        BY <3>2 DEF SchedulerTypes, TaskTyped, Holds
      <4> DEFINE st == IF run.ok THEN schTask.status ELSE "failed"
                 err == ~run.ok
      <4>2. st \in Sch!Status /\ err \in BOOLEAN
        BY <4>1 DEF Tasks, Sch!TaskType, Sch!Status
      <4>3. schTask' = [schTask EXCEPT !.err = err, !.status = st] /\ Sch!Save
        BY <1>5, <3>2 DEF Sch!Record, Sch!Stored
      <4> HIDE DEF st, err
      <4>4. Holds([schTask EXCEPT !.err = err, !.status = st])
        <5>1. 1 \in 1..(MaxTime + Period + Retry)
          BY SchedulerBounds
        <5> QED
          BY <4>1, <4>2, <5>1, SchedulerMarks
      <4>5. Holds(schTask)'
        BY <4>3, <4>4 DEF Holds, Sch!NoTask
      <4> QED
        BY <4>3, <4>5, SchedulerOnFile
    <3> QED
      BY <3>1, <3>2
  <2> QED
    BY <1>5, <2>3, <2>4, SchedulerRests, SchedulerTypesOf DEF Sch!Record, Sch!hostVars, Sch!boundVars
<1>6. CASE Sch!FinishFire(f)
  <2>1. RunsTyped'
    BY <1>6, SchedulerRunTyped DEF Sch!FinishFire, Sch!Idle
  <2>2. TaskTyped'
    <3>1. CASE schTask = Sch!NoTask \/ schTask.status = "failed"
      BY <1>6, <3>1, SchedulerRests DEF Sch!FinishFire, Sch!Stored, Sch!taskVars
    <3>2. CASE schTask # Sch!NoTask /\ schTask.status # "failed"
      <4>1. schTask \in Tasks /\ schTask.hosts.len <= Len(schTask.hosts.room)
        BY <3>2 DEF SchedulerTypes, TaskTyped, Holds
      <4> DEFINE st == IF run.failed THEN "failed" ELSE IF run.sent THEN "dispatched" ELSE "skipped"
      <4>2. st \in Sch!Status
        BY DEF Sch!Status
      <4>3. schTask' = [schTask EXCEPT !.status = st] /\ Sch!Save
        BY <1>6, <3>2 DEF Sch!FinishFire, Sch!Stored
      <4> HIDE DEF st
      <4>4. Holds([schTask EXCEPT !.status = st])
        <5>1. 1 \in 1..(MaxTime + Period + Retry) /\ TRUE \in BOOLEAN
          BY SchedulerBounds
        <5> QED
          BY <4>1, <4>2, <5>1, SchedulerMarks
      <4>5. Holds(schTask)'
        BY <4>3, <4>4 DEF Holds, Sch!NoTask
      <4> QED
        BY <4>3, <4>5, SchedulerOnFile
    <3> QED
      BY <3>1, <3>2
  <2> QED
    BY <1>6, <2>1, <2>2, SchedulerRests, SchedulerTypesOf DEF Sch!FinishFire, Sch!hostVars, Sch!boundVars
<1> QED
  BY <1>3, <1>4, <1>5, <1>6

LEMMA SchedulerTypesRestart ==
    ASSUME SchedulerTypes, Sch!Restart
    PROVE  SchedulerTypes'
<1> DEFINE kept == Sch!Filter(schFile.hosts, schListed)
           s == Sch!Pruned(CHOOSE a \in Arrays : TRUE, schFile.hosts, kept)
           some == kept = schFile.hosts \/ kept # <<>>
<1>1. /\ schCrashes < MaxCrashes /\ schCrashes' = schCrashes + 1
      /\ schFires' = [f \in Sch!Fires |-> Sch!Idle] /\ schEdit' = Sch!NoEdit /\ schPruning' = {}
      /\ schSeen' = {}
      /\ schTask' = IF schFile = Sch!NoTask THEN Sch!NoTask
                    ELSE [schFile EXCEPT !.hosts = s, !.enabled = @ /\ some]
      /\ Sch!Save
      /\ UNCHANGED <<schNow, schListed, schRung, schEdits>>
  BY DEF Sch!Restart
<1>2. Holds(schTask')
  <2>1. CASE schFile = Sch!NoTask
    BY <1>1, <2>1 DEF Holds
  <2>2. CASE schFile # Sch!NoTask
    <3>1. schFile \in Filed /\ schFile.hosts \in Seq(Targets) /\ schFile.enabled \in BOOLEAN
      BY <2>2 DEF SchedulerTypes, TaskTyped, Filed, Sch!TaskType
    <3>2. (CHOOSE a \in Arrays : TRUE) \in Arrays
      BY SchedulerFresh
    <3>3. s \in Sch!Slices /\ s.len <= Len(s.room)
      BY <3>1, <3>2, SchedulerPruned
    <3>4. schTask' = [schFile EXCEPT !.hosts = s, !.enabled = @ /\ some] /\ some \in BOOLEAN
      BY <1>1, <2>2
    <3> HIDE DEF s, some
    <3> DEFINE en == schFile.enabled /\ some
    <3>5. en \in BOOLEAN
      BY <3>1, <3>4
    <3>6. schTask' = [schFile EXCEPT !.hosts = s, !.enabled = en]
      BY <3>1, <3>4 DEF Filed, Sch!TaskType
    <3> HIDE DEF en
    <3>7. schTask' \in Tasks /\ schTask'.hosts = s
      BY <3>1, <3>3, <3>5, <3>6 DEF Filed, Tasks, Sch!TaskType
    <3> QED
      BY <3>3, <3>7 DEF Holds
  <2> QED
    BY <2>1, <2>2
<1> HIDE DEF s, some
<1>3. TaskTyped'
  <2>1. Holds(schTask)'
    BY <1>2 DEF Holds, Sch!NoTask
  <2> QED
    BY <1>1, <2>1, SchedulerOnFile
<1>4. RunsTyped'
  BY <1>1 DEF RunsTyped, Sch!Idle
<1>5. Holds(schEdit)'
  BY <1>1 DEF Holds, Sch!NoEdit, Sch!NoTask
<1>6. HostsTyped' /\ CountsTyped'
  BY <1>1, SchedulerBounds DEF SchedulerTypes, HostsTyped, CountsTyped
<1> QED
  BY <1>3, <1>4, <1>5, <1>6, SchedulerTypesOf

LEMMA SchedulerTypesInit == Sch!Init => SchedulerTypes
<1> SUFFICES ASSUME Sch!Init PROVE SchedulerTypes
  OBVIOUS
<1>1. HostsTyped /\ CountsTyped
  BY SchedulerBounds DEF Sch!Init, HostsTyped, CountsTyped
<1>2. TaskTyped /\ Holds(schEdit)
  BY DEF Sch!Init, TaskTyped, Holds, Sch!NoEdit
<1>3. RunsTyped
  BY DEF Sch!Init, RunsTyped, Sch!Idle
<1> QED
  BY <1>1, <1>2, <1>3 DEF SchedulerTypes

LEMMA SchedulerTypesNext ==
    ASSUME SchedulerTypes, Sch!Next \/ UNCHANGED schVars
    PROVE  SchedulerTypes'
<1>1. CASE UNCHANGED schVars
  BY <1>1, SchedulerRests, SchedulerTypesOf DEF schVars
<1>2. CASE Sch!Elapse \/ \E h \in Targets : Sch!Connect(h) \/ Sch!RemoveHost(h) \/ Sch!PruneHosts(h)
  BY <1>2, SchedulerTypesOutside
<1>3. CASE \E body \in Bodies : Sch!Create(body) \/ Sch!DecodeEdit(body)
  BY <1>3, SchedulerTypesCreate, SchedulerTypesDecode
<1>4. CASE Sch!Update \/ Sch!Delete
  BY <1>4, SchedulerTypesEdit
<1>5. CASE \/ Sch!TickRearm \/ Sch!TickSkip
           \/ \E f \in Sch!Fires : Sch!RunNow(f) \/ Sch!TickRun(f)
  BY <1>5, SchedulerTypesTick
<1>6. CASE \E f \in Sch!Fires :
               Sch!NextHost(f) \/ Sch!Dispatch(f) \/ Sch!Record(f) \/ Sch!FinishFire(f)
  BY <1>6, SchedulerTypesRun
<1>7. CASE Sch!Restart
  BY <1>7, SchedulerTypesRestart
<1> QED
  BY <1>1, <1>2, <1>3, <1>4, <1>5, <1>6, <1>7 DEF Sch!Next

\* The scheduler keeps to its types, and no list shows more than its array has, whatever
\* decodes write over it.
THEOREM SchedulerKeepsTypes == Spec => []Sch!TypeOK
<1>1. Init => SchedulerTypes
  BY SchedulerTypesInit DEF Init
<1>2. SchedulerTypes /\ [Next]_vars => SchedulerTypes'
  <2>1. [Next]_vars => Sch!Next \/ UNCHANGED schVars
    BY DEF Next, SchedulerStep, EnrollmentStep, DialerStep, LogStreamsStep, StackFilesStep,
           ImageUpdatesStep, AccountsStep, AuditLogStep, CertFilesStep, vars
  <2> QED
    BY <2>1, SchedulerTypesNext
<1> QED
  BY <1>1, <1>2, SchedulerTyped, PTL DEF Spec
=============================================================================
