--------------------------- MODULE EnrollmentProofs ---------------------------
(***************************************************************************)
(* Proofs about Enrollment, for any hosts, jobs and certificates.          *)
(***************************************************************************)
EXTENDS Enrollment, TLAPS, SequenceTheorems

Issued == 0..Len(owner)

MachineType ==
    /\ proc \in Issued /\ conn \in Issued /\ installed \in Issued \cup {Torn}
    /\ stage \in [bin : BOOLEAN, bundle : Issued]
    /\ inbox \in Seq(Issued)

RecordType ==
    /\ listed \subseteq Hosts /\ gone \subseteq Hosts \ listed /\ asked \subseteq Hosts
    /\ gone \subseteq asked
    /\ owner \in Seq(Hosts) /\ Len(owner) <= MaxSerials
    /\ recorded \in [Hosts -> Issued]
    /\ revoked \subseteq 1..Len(owner) /\ excused \subseteq Issued

Work ==
    [op : {"enroll", "upgrade", "revive", "rotate", "uninstall", "delete"}, host : Hosts,
     pc : {"issue", "stage", "bundle", "script", "teardown", "revoke", "remove", "push", "record"},
     serial : Nat]

\* A job works on a host that was listed when it began, with a certificate of that host
\* or none; only one that was asked to remove the host comes near a revocation, and an
\* uninstall removes the record after it.
JobOK(k) ==
    /\ k.serial \in Issued /\ (k.serial # 0 => owner[k.serial] = k.host)
    /\ k.host \in listed \cup gone
    /\ k.pc \in {"teardown", "revoke", "remove"} => k.host \in asked
    /\ k.pc = "remove" /\ k.op # "delete" => k.serial \in revoked \cup {0}

WorkersOK ==
    /\ worker \in [Workers -> {Idle} \cup Work]
    /\ \A w \in Workers : worker[w] # Idle => JobOK(worker[w])

RecordedOK == \A h \in Hosts : recorded[h] # 0 => owner[recorded[h]] = h

RevokedOK == \A s \in revoked : owner[s] \in asked

\* RevokedIsRemoved says that somebody is about to revoke for a host that is gone; what
\* is about to be revoked is the certificate recorded for it.
GoneOK ==
    \A h \in gone :
        \/ recorded[h] \in revoked \cup excused \cup {0}
        \/ \E w \in Workers :
            At(w, "revoke") /\ worker[w].host = h /\ worker[w].serial = recorded[h]

EnrollmentInv ==
    MachineType /\ RecordType /\ WorkersOK /\ RecordedOK /\ RevokedOK /\ GoneOK

certVars == <<listed, gone, recorded, owner, revoked, asked, excused>>

LEMMA Busy ==
    ASSUME WorkersOK, NEW w \in Workers, worker[w].pc # "idle"
    PROVE  /\ worker[w] \in Work /\ worker[w] # Idle /\ JobOK(worker[w])
           /\ worker[w].host \in Hosts /\ worker[w].serial \in Nat
  BY DEF WorkersOK, Idle, Work

LEMMA IdleFacts ==
    /\ Idle.pc = "idle" /\ \A k \in Work : k # Idle /\ k.pc # "idle"
    /\ \A w \in Workers : worker[w] = Idle => worker[w].pc = "idle"
<1>1. ASSUME NEW k \in Work PROVE k.pc # "idle"
  BY DEF Work
<1> QED
  BY <1>1 DEF Idle

\* The serials that are issued stay issued.
LEMMA SeqWider ==
    ASSUME NEW n \in Nat, NEW m \in Nat, n <= m, NEW q \in Seq(0..n)
    PROVE  q \in Seq(0..m)
<1>1. q \in [1..Len(q) -> 0..n] /\ Len(q) \in Nat
  OBVIOUS
<1>2. q \in [1..Len(q) -> 0..m]
  BY <1>1
<1> QED
  BY <1>1, <1>2, IsASeq

LEMMA EnrollmentInit == SerialsAssumption /\ Init => EnrollmentInv
<1> SUFFICES ASSUME SerialsAssumption, Init PROVE EnrollmentInv
  OBVIOUS
<1>1. Len(owner) = 0 /\ owner \in Seq(Hosts)
  BY DEF Init
<1>2. MachineType /\ RecordType
  BY <1>1 DEF Init, MachineType, RecordType, Issued, NoStage, SerialsAssumption
<1>3. WorkersOK /\ RecordedOK /\ RevokedOK /\ GoneOK
  BY DEF Init, WorkersOK, RecordedOK, RevokedOK, GoneOK
<1> QED
  BY <1>2, <1>3 DEF EnrollmentInv

\* A step that leaves the certificates alone and moves no job keeps the invariant.
LEMMA QuietStep ==
    ASSUME EnrollmentInv, UNCHANGED certVars, UNCHANGED worker, MachineType'
    PROVE  EnrollmentInv'
<1>1. RecordType' /\ RecordedOK' /\ RevokedOK'
  BY DEF EnrollmentInv, RecordType, RecordedOK, RevokedOK, certVars, Issued
<1>2. WorkersOK' /\ GoneOK'
  BY DEF EnrollmentInv, WorkersOK, GoneOK, JobOK, At, certVars, Issued
<1> QED
  BY <1>1, <1>2 DEF EnrollmentInv

\* So does one that moves a job that is not at its revocation on to another step, or ends it.
LEMMA JobStep ==
    ASSUME EnrollmentInv, UNCHANGED certVars, MachineType', NEW w \in Workers,
           worker[w].pc \notin {"idle", "revoke"},
           \/ worker' = [worker EXCEPT ![w] = Idle]
           \/ \E pc \in {"bundle", "script", "record"} : worker' = [worker EXCEPT ![w].pc = pc]
           \/ worker[w].pc = "teardown" /\ worker' = [worker EXCEPT ![w].pc = "revoke"]
    PROVE  EnrollmentInv'
<1> USE DEF EnrollmentInv
<1>1. RecordType' /\ RecordedOK' /\ RevokedOK'
  BY DEF RecordType, RecordedOK, RevokedOK, certVars, Issued
<1>2. worker[w] \in Work /\ JobOK(worker[w]) /\ worker \in [Workers -> {Idle} \cup Work]
  BY Busy DEF WorkersOK
<1>3. \A v \in Workers : v # w => worker'[v] = worker[v]
  BY <1>2
<1>4. \/ worker'[w] = Idle
      \/ /\ worker'[w] \in Work
         /\ worker'[w].op = worker[w].op /\ worker'[w].host = worker[w].host
         /\ worker'[w].serial = worker[w].serial /\ worker'[w].pc # "remove"
         /\ worker'[w].pc \in {"teardown", "revoke"} => worker[w].pc = "teardown"
  BY <1>2 DEF Work
<1>5. worker' \in [Workers -> {Idle} \cup Work]
  BY <1>2, <1>3, <1>4
<1>6. worker'[w] # Idle => JobOK(worker[w])'
  BY <1>2, <1>4 DEF JobOK, certVars, Issued
<1>7. \A v \in Workers : v # w /\ worker'[v] # Idle => JobOK(worker[v])'
  BY <1>3 DEF WorkersOK, JobOK, certVars, Issued
<1>8. WorkersOK'
  BY <1>5, <1>6, <1>7 DEF WorkersOK
<1>9. GoneOK'
  BY <1>3 DEF GoneOK, At, certVars
<1> QED
  BY <1>1, <1>8, <1>9

LEMMA OwnerGrows ==
    ASSUME SerialsAssumption, RecordType, MachineType, NEW h \in Hosts, IssuedTo(h)
    PROVE  /\ owner' \in Seq(Hosts) /\ Len(owner') = Len(owner) + 1 /\ Len(owner') <= MaxSerials
           /\ NewSerial \in Issued' /\ NewSerial # 0 /\ owner'[NewSerial] = h
           /\ Issued \subseteq Issued' /\ \A s \in 1..Len(owner) : owner'[s] = owner[s]
           /\ UNCHANGED machineVars => MachineType'
<1>1. owner \in Seq(Hosts) /\ Len(owner) \in Nat /\ owner' = Append(owner, h)
      /\ NewSerial = Len(owner) + 1 /\ NewSerial <= MaxSerials
  BY DEF RecordType, IssuedTo, NewSerial
<1>2. /\ owner' \in Seq(Hosts) /\ Len(owner') = Len(owner) + 1 /\ owner'[Len(owner) + 1] = h
      /\ \A s \in 1..Len(owner) : owner'[s] = owner[s]
  BY <1>1
<1>3. Issued \subseteq Issued' /\ NewSerial \in Issued' /\ NewSerial # 0
  BY <1>1, <1>2 DEF Issued
<1>4. ASSUME UNCHANGED machineVars PROVE MachineType'
  <2>1. inbox \in Seq(0..Len(owner'))
    BY <1>1, <1>2, SeqWider DEF MachineType, Issued
  <2> QED
    BY <2>1, <1>3, <1>4 DEF MachineType, machineVars, Issued
<1> QED
  BY <1>1, <1>2, <1>3, <1>4

\* A step that starts a job, and may list a host, ask for its removal or issue a serial.
LEMMA BeginStep ==
    ASSUME EnrollmentInv, MachineType', RecordType', NEW w \in Workers, NEW k \in Work,
           JobOK(k)', worker[w] = Idle, worker' = [worker EXCEPT ![w] = k],
           UNCHANGED <<gone, recorded, revoked, excused>>,
           listed \subseteq listed', asked \subseteq asked', Issued \subseteq Issued',
           \A s \in 1..Len(owner) : owner'[s] = owner[s]
    PROVE  EnrollmentInv'
<1> USE DEF EnrollmentInv
<1>1. worker[w].pc = "idle" /\ worker \in [Workers -> {Idle} \cup Work]
  BY IdleFacts DEF WorkersOK
<1>2. \A v \in Workers : worker'[v] = IF v = w THEN k ELSE worker[v]
  BY <1>1
<1>3. ASSUME NEW v \in Workers, v # w, worker[v] # Idle PROVE JobOK(worker[v])'
  <2>1. JobOK(worker[v]) /\ worker'[v] = worker[v]
    BY <1>2, <1>3 DEF WorkersOK
  <2>2. worker[v].serial # 0 => worker[v].serial \in 1..Len(owner)
    BY <2>1 DEF JobOK, Issued, RecordType
  <2> QED
    BY <2>1, <2>2 DEF JobOK
<1>4. WorkersOK'
  BY <1>1, <1>2, <1>3 DEF WorkersOK
<1>5. \A h \in Hosts : recorded[h] # 0 => recorded[h] \in 1..Len(owner)
  BY DEF RecordType, Issued
<1>6. RecordedOK' /\ RevokedOK'
  BY <1>5 DEF RecordedOK, RevokedOK, RecordType
<1>7. GoneOK'
  BY <1>1, <1>2 DEF GoneOK, At
<1> QED
  BY <1>4, <1>6, <1>7

LEMMA MachineKept ==
    ASSUME MachineType, UNCHANGED machineVars, UNCHANGED owner
    PROVE  MachineType'
  BY DEF MachineType, machineVars, Issued

LEMMA BeginFacts ==
    ASSUME NEW w \in Workers, NEW op, NEW h, NEW pc, NEW serial, Begin(w, op, h, pc, serial)
    PROVE  /\ worker[w] = Idle
           /\ worker' = [worker EXCEPT ![w] = [op |-> op, host |-> h, pc |-> pc, serial |-> serial]]
  BY DEF Begin

\* The requests that issue nothing.
LEMMA RequestSteps ==
    ASSUME EnrollmentInv, NEW w \in Workers, NEW h \in Hosts,
           \/ Enroll(w, h) \/ Upgrade(w, h) \/ Revive(w, h) \/ Uninstall(w, h) \/ DeleteHost(w, h)
    PROVE  EnrollmentInv'
<1> USE DEF EnrollmentInv
<1>1. /\ UNCHANGED <<gone, recorded, owner, revoked, excused, machineVars>>
      /\ listed \subseteq listed' /\ asked \subseteq asked'
      /\ listed' \subseteq Hosts /\ asked' \subseteq Hosts /\ gone' \cap listed' = {} /\ h \in listed'
  BY DEF Enroll, Upgrade, Revive, Uninstall, DeleteHost, recordVars, RecordType
<1>2. MachineType'
  BY <1>1, MachineKept
<1>3. RecordType'
  BY <1>1 DEF RecordType, Issued
<1>4. /\ Issued' = Issued /\ 0 \in Issued /\ recorded[h] \in Issued /\ recorded[h] \in Nat
      /\ recorded[h] # 0 => owner'[recorded[h]] = h
  BY <1>1 DEF RecordType, RecordedOK, Issued
<1> DEFINE Job(op, pc, serial) == [op |-> op, host |-> h, pc |-> pc, serial |-> serial]
<1>5. ASSUME NEW op \in {"enroll", "upgrade", "revive"}, NEW pc \in {"issue", "stage", "script"},
             Begin(w, op, h, pc, 0)
      PROVE  EnrollmentInv'
  <2>1. Job(op, pc, 0) \in Work /\ JobOK(Job(op, pc, 0))'
    BY <1>1, <1>4 DEF Work, JobOK
  <2> QED
    BY <1>1, <1>2, <1>3, <1>4, <1>5, <2>1, BeginStep, BeginFacts
<1>6. ASSUME NEW op \in {"uninstall", "delete"}, NEW pc \in {"teardown", "remove"},
             pc = "remove" => op = "delete", h \in asked', Begin(w, op, h, pc, recorded[h])
      PROVE  EnrollmentInv'
  <2>1. Job(op, pc, recorded[h]) \in Work /\ JobOK(Job(op, pc, recorded[h]))'
    BY <1>1, <1>4, <1>6 DEF Work, JobOK
  <2> QED
    BY <1>1, <1>2, <1>3, <1>4, <1>6, <2>1, BeginStep, BeginFacts
<1> QED
  BY <1>5, <1>6 DEF Enroll, Upgrade, Revive, Uninstall, DeleteHost

LEMMA RotateStep ==
    ASSUME SerialsAssumption, EnrollmentInv, NEW w \in Workers, NEW h \in Hosts, Rotate(w, h)
    PROVE  EnrollmentInv'
<1> USE DEF EnrollmentInv
<1>1. UNCHANGED <<listed, gone, recorded, revoked, asked, excused, machineVars>> /\ h \in listed
      /\ IssuedTo(h) /\ Begin(w, "rotate", h, "push", NewSerial)
  BY DEF Rotate
<1>2. /\ owner' \in Seq(Hosts) /\ Len(owner') = Len(owner) + 1 /\ Len(owner') <= MaxSerials
      /\ NewSerial \in Issued' /\ NewSerial # 0 /\ owner'[NewSerial] = h
      /\ Issued \subseteq Issued' /\ \A s \in 1..Len(owner) : owner'[s] = owner[s]
      /\ MachineType'
  BY <1>1, OwnerGrows
<1>3. RecordType'
  <2>1. 1..Len(owner) \subseteq 1..Len(owner')
    BY <1>2 DEF RecordType
  <2> QED
    BY <1>1, <1>2, <2>1 DEF RecordType
<1>4. NewSerial \in Nat
  BY DEF NewSerial, RecordType
<1>5. PICK k \in Work :
        /\ k = [op |-> "rotate", host |-> h, pc |-> "push", serial |-> NewSerial]
        /\ k.serial = NewSerial /\ k.host = h /\ k.pc = "push"
  <2> DEFINE rec == [op |-> "rotate", host |-> h, pc |-> "push", serial |-> NewSerial]
  <2>1. rec \in Work /\ rec.serial = NewSerial /\ rec.host = h /\ rec.pc = "push"
    BY <1>4 DEF Work
  <2> QED
    BY <2>1
<1>6. JobOK(k)'
  BY <1>1, <1>2, <1>5 DEF JobOK
<1>7. worker[w] = Idle /\ worker' = [worker EXCEPT ![w] = k]
  BY <1>1, <1>5, BeginFacts
<1> QED
  BY <1>1, <1>2, <1>3, <1>6, <1>7, BeginStep

LEMMA IssueStep ==
    ASSUME SerialsAssumption, EnrollmentInv, NEW w \in Workers, Issue(w)
    PROVE  EnrollmentInv'
<1> USE DEF EnrollmentInv
<1>0. worker[w].pc = "issue" /\ worker[w] \in Work /\ JobOK(worker[w])
  BY Busy DEF Issue, At
<1>1. PICK h \in Hosts : h = worker[w].host /\ h \in listed \cup gone
  BY <1>0 DEF Work, JobOK
<1>2. /\ UNCHANGED <<listed, gone, revoked, asked, excused, machineVars>> /\ IssuedTo(h)
      /\ recorded' = (IF h \in listed THEN [recorded EXCEPT ![h] = NewSerial] ELSE recorded)
      /\ worker' = [worker EXCEPT ![w].serial = NewSerial, ![w].pc = "stage"]
  BY <1>1 DEF Issue, historyVars
<1>3. /\ owner' \in Seq(Hosts) /\ Len(owner') = Len(owner) + 1 /\ Len(owner') <= MaxSerials
      /\ NewSerial \in Issued' /\ NewSerial # 0 /\ owner'[NewSerial] = h
      /\ Issued \subseteq Issued' /\ \A s \in 1..Len(owner) : owner'[s] = owner[s]
      /\ MachineType'
  BY <1>1, <1>2, OwnerGrows
<1>4. NewSerial \in Nat /\ 1..Len(owner) \subseteq 1..Len(owner')
  BY <1>3 DEF NewSerial, RecordType
<1>5. PICK k \in Work :
        /\ k = [worker[w] EXCEPT !.serial = NewSerial, !.pc = "stage"]
        /\ k.serial = NewSerial /\ k.host = h /\ k.pc = "stage"
  <2> DEFINE rec == [worker[w] EXCEPT !.serial = NewSerial, !.pc = "stage"]
  <2>1. rec \in Work /\ rec.serial = NewSerial /\ rec.host = h /\ rec.pc = "stage"
    BY <1>0, <1>1, <1>4 DEF Work
  <2> QED
    BY <2>1
<1>6. RecordType'
  BY <1>1, <1>2, <1>3, <1>4 DEF RecordType
<1>7. worker \in [Workers -> {Idle} \cup Work]
      /\ \A v \in Workers : worker'[v] = IF v = w THEN k ELSE worker[v]
  BY <1>2, <1>5 DEF WorkersOK
<1>8. JobOK(k)'
  BY <1>1, <1>2, <1>3, <1>5 DEF JobOK
<1>9. ASSUME NEW v \in Workers, v # w, worker[v] # Idle PROVE JobOK(worker[v])'
  <2>1. JobOK(worker[v]) /\ worker'[v] = worker[v]
    BY <1>7, <1>9 DEF WorkersOK
  <2>2. worker[v].serial # 0 => worker[v].serial \in 1..Len(owner)
    BY <2>1 DEF JobOK, Issued, RecordType
  <2>3. /\ UNCHANGED <<listed, gone, asked, revoked>> /\ Issued \subseteq Issued'
        /\ \A s \in 1..Len(owner) : owner'[s] = owner[s]
    BY <1>2, <1>3
  <2> QED
    BY <2>1, <2>2, <2>3 DEF JobOK
<1>10. WorkersOK'
  <2>1. worker' \in [Workers -> {Idle} \cup Work]
    BY <1>2, <1>7
  <2>2. ASSUME NEW v \in Workers, worker'[v] # Idle PROVE JobOK(worker[v])'
    <3>1. CASE v = w
      BY <1>7, <1>8, <3>1
    <3>2. CASE v # w
      BY <1>7, <1>9, <2>2, <3>2
    <3> QED
      BY <3>1, <3>2
  <2> QED
    BY <2>1, <2>2 DEF WorkersOK
<1>11. \A g \in Hosts : recorded[g] # 0 => recorded[g] \in 1..Len(owner)
  BY DEF RecordType, Issued
<1>12. RecordedOK' /\ RevokedOK'
  BY <1>2, <1>3, <1>11 DEF RecordedOK, RevokedOK, RecordType
<1>13. \A g \in gone : recorded'[g] = recorded[g]
  BY <1>2 DEF RecordType
<1>14. GoneOK'
  BY <1>0, <1>2, <1>7, <1>13 DEF GoneOK, At
<1> QED
  BY <1>3, <1>6, <1>10, <1>12, <1>14

LEMMA Booting ==
    ASSUME NEW bundle \in Issued \cup {Torn}, MachineType
    PROVE  Boots(bundle) \in Issued /\ 0 \in Issued /\ <<>> \in Seq(Issued)
<1>1. 0 \in Issued
  BY DEF MachineType, Issued
<1> QED
  BY <1>1 DEF Boots

\* What a job does on the machine, and what it sends.
LEMMA MachineSteps ==
    ASSUME EnrollmentInv, NEW w \in Workers,
           \/ StageBinary(w) \/ StageBundle(w) \/ GiveUp(w)
           \/ InstallScript(w) \/ UpgradeScript(w) \/ ReviveScript(w)
           \/ Teardown(w) \/ Push(w)
    PROVE  EnrollmentInv'
<1> USE DEF EnrollmentInv
<1>1. UNCHANGED certVars /\ UNCHANGED owner
  BY DEF StageBinary, StageBundle, GiveUp, InstallScript, UpgradeScript, ReviveScript, Teardown,
         Push, recordVars, historyVars, certVars
<1>2. /\ worker[w].pc \notin {"idle", "revoke"}
      /\ \/ worker' = [worker EXCEPT ![w] = Idle]
         \/ \E pc \in {"bundle", "script", "record"} : worker' = [worker EXCEPT ![w].pc = pc]
         \/ worker[w].pc = "teardown" /\ worker' = [worker EXCEPT ![w].pc = "revoke"]
  BY DEF StageBinary, StageBundle, GiveUp, InstallScript, UpgradeScript, ReviveScript, Teardown,
         Push, At, Goto, Stop
<1>3. worker[w].serial \in Issued /\ Issued' = Issued /\ 0 \in Issued /\ Boots(installed) \in Issued
      /\ <<>> \in Seq(Issued)
  BY <1>1, <1>2, Busy, Booting DEF JobOK, Issued, MachineType
<1>9. /\ NoStage \in [bin : BOOLEAN, bundle : Issued] /\ Append(inbox, 0) \in Seq(Issued)
      /\ proc \in Issued /\ conn \in Issued /\ installed \in Issued \cup {Torn}
      /\ stage \in [bin : BOOLEAN, bundle : Issued] /\ inbox \in Seq(Issued)
  BY <1>3 DEF MachineType, NoStage
<1>4. ASSUME StageBinary(w) \/ StageBundle(w) \/ GiveUp(w) PROVE MachineType'
  BY <1>3, <1>4 DEF StageBinary, StageBundle, GiveUp, MachineType, machineVars
<1>5. ASSUME InstallScript(w) PROVE MachineType'
  <2>1. installed' \in Issued /\ UNCHANGED owner
    BY <1>1, <1>5 DEF InstallScript, CopyStaged, MachineType
  <2>2. Boots(installed') \in Issued
    BY <1>3, <2>1 DEF Boots
  <2>3. /\ \/ proc' = Boots(installed') /\ conn' = 0 /\ inbox' = <<>>
           \/ UNCHANGED <<proc, conn, inbox>>
        /\ stage' = NoStage \/ UNCHANGED stage
    BY <1>5 DEF InstallScript, SystemdRegister, OpenrcRegister, Boot, Restarted
  <2> QED
    BY <1>3, <1>9, <2>1, <2>2, <2>3 DEF MachineType
<1>6. ASSUME UpgradeScript(w) \/ ReviveScript(w) PROVE MachineType'
  <2>1. /\ \/ proc' = Boots(installed) /\ conn' = 0 /\ inbox' = <<>>
           \/ UNCHANGED <<proc, conn, inbox>>
        /\ stage' = NoStage \/ UNCHANGED stage
        /\ UNCHANGED installed
    BY <1>6 DEF UpgradeScript, ReviveScript, SwapBinaries, StartService, Boot, Restarted
  <2> QED
    BY <1>3, <1>9, <2>1 DEF MachineType
<1>7. ASSUME Teardown(w) PROVE MachineType'
  <2>1. \/ inbox' = Append(inbox, 0) /\ UNCHANGED <<stage, installed, proc, conn>>
        \/ installed' = 0 /\ proc' = 0 /\ conn' = 0 /\ inbox' = <<>> /\ UNCHANGED stage
        \/ UNCHANGED <<stage, installed, proc, conn, inbox>>
    BY <1>7 DEF Teardown, RemoveService, Restarted, machineVars
  <2> QED
    BY <1>3, <1>9, <2>1 DEF MachineType
<1>8. ASSUME Push(w) PROVE MachineType'
  BY <1>3, <1>8 DEF Push, MachineType
<1> QED
  BY <1>1, <1>2, <1>4, <1>5, <1>6, <1>7, <1>8, JobStep

\* What the associate does.
LEMMA AssociateSteps ==
    ASSUME EnrollmentInv, Connect \/ Disconnect \/ Apply \/ Leave \/ Reboot
    PROVE  EnrollmentInv'
<1> USE DEF EnrollmentInv
<1>1. UNCHANGED certVars /\ UNCHANGED worker
  BY DEF Connect, Disconnect, Apply, Leave, Reboot, recordVars, historyVars, certVars
<1>2. Issued' = Issued /\ 0 \in Issued /\ Boots(installed) \in Issued /\ <<>> \in Seq(Issued)
  BY <1>1, Booting DEF MachineType, Issued, certVars
<1>3. ASSUME inbox # <<>> PROVE Head(inbox) \in Issued /\ Tail(inbox) \in Seq(Issued)
  BY <1>3 DEF MachineType
<1>4. MachineType'
  BY <1>2, <1>3 DEF Connect, Disconnect, Apply, Leave, Reboot, TeardownScript, Boot, Restarted,
                    MachineType
<1> QED
  BY <1>1, <1>4, QuietStep

LEMMA RecordStep ==
    ASSUME EnrollmentInv, NEW w \in Workers, Record(w)
    PROVE  EnrollmentInv'
<1> USE DEF EnrollmentInv
<1>1. worker[w].pc = "record" /\ JobOK(worker[w]) /\ worker[w].host \in Hosts
  BY Busy DEF Record, At
<1>2. /\ UNCHANGED <<listed, gone, owner, revoked, asked, excused, machineVars>>
      /\ recorded' = (IF worker[w].host \in listed
                      THEN [recorded EXCEPT ![worker[w].host] = worker[w].serial] ELSE recorded)
      /\ worker' = [worker EXCEPT ![w] = Idle]
  BY DEF Record, Stop, historyVars
<1>3. MachineType'
  BY <1>2, MachineKept
<1>4. RecordType' /\ RecordedOK' /\ RevokedOK'
  BY <1>1, <1>2 DEF RecordType, RecordedOK, RevokedOK, JobOK, Issued
<1>5. \A v \in Workers : worker'[v] = IF v = w THEN Idle ELSE worker[v]
  BY <1>2 DEF WorkersOK
<1>6. WorkersOK'
  BY <1>2, <1>5 DEF WorkersOK, JobOK, Issued
<1>7. GoneOK'
  <2>1. \A g \in gone : recorded'[g] = recorded[g]
    BY <1>2 DEF RecordType
  <2> QED
    BY <1>1, <1>2, <1>5, <2>1 DEF GoneOK, At
<1> QED
  BY <1>3, <1>4, <1>6, <1>7

LEMMA RevokeStep ==
    ASSUME EnrollmentInv, NEW w \in Workers, RevokeCopy(w)
    PROVE  EnrollmentInv'
<1> USE DEF EnrollmentInv
<1>1. worker[w].pc = "revoke" /\ JobOK(worker[w]) /\ worker[w].host \in Hosts /\ worker[w] \in Work
  BY Busy DEF RevokeCopy, At
<1>2. /\ UNCHANGED <<listed, gone, recorded, owner, asked, excused, machineVars>>
      /\ revoked' = revoked \cup ({worker[w].serial} \ {0})
      /\ \/ worker' = [worker EXCEPT ![w].pc = "remove"]
         \/ worker' = [worker EXCEPT ![w] = Idle]
  BY DEF RevokeCopy, Goto, Stop, recordVars, historyVars
<1>3. MachineType'
  BY <1>2, MachineKept
<1>4. RecordType' /\ RecordedOK' /\ RevokedOK'
  BY <1>1, <1>2 DEF RecordType, RecordedOK, RevokedOK, JobOK, Issued
<1>5. \A v \in Workers : v # w => worker'[v] = worker[v]
  BY <1>2 DEF WorkersOK
<1>6. \/ worker'[w] = Idle
      \/ /\ worker'[w] \in Work /\ worker'[w].pc = "remove"
         /\ worker'[w].host = worker[w].host /\ worker'[w].serial = worker[w].serial
  BY <1>1, <1>2 DEF Work, WorkersOK
<1>7. worker' \in [Workers -> {Idle} \cup Work]
  BY <1>2, <1>5, <1>6 DEF WorkersOK
<1>8. worker'[w] # Idle => JobOK(worker[w])'
  BY <1>1, <1>2, <1>6 DEF JobOK, Issued
<1>9. \A v \in Workers : v # w /\ worker'[v] # Idle => JobOK(worker[v])'
  BY <1>2, <1>5 DEF WorkersOK, JobOK, Issued
<1>10. WorkersOK'
  BY <1>7, <1>8, <1>9 DEF WorkersOK
<1>11. GoneOK'
  <2>1. ASSUME NEW v \in Workers, NEW h \in gone, At(v, "revoke"), worker[v].host = h,
               worker[v].serial = recorded[h]
        PROVE  \/ recorded[h] \in revoked' \cup {0}
               \/ v # w
    BY <1>2, <2>1
  <2> QED
    BY <1>2, <1>5, <2>1 DEF GoneOK, At
<1> QED
  BY <1>3, <1>4, <1>10, <1>11

LEMMA RemoveStep ==
    ASSUME EnrollmentInv, NEW w \in Workers, Remove(w)
    PROVE  EnrollmentInv'
<1> USE DEF EnrollmentInv
<1> DEFINE h == worker[w].host
<1>1. /\ worker[w].pc = "remove" /\ worker[w] \in Work /\ JobOK(worker[w]) /\ h \in Hosts
      /\ h \in asked /\ h \in listed \cup gone
  BY Busy DEF Remove, At, JobOK
<1>2. /\ UNCHANGED <<recorded, owner, revoked, asked, machineVars>>
      /\ listed' = listed \ {h} /\ gone' = gone \cup {h}
      /\ excused' = (IF h \in listed /\ recorded[h] # worker[w].serial
                     THEN excused \cup {recorded[h]} ELSE excused)
      /\ \/ worker[w].op = "delete" /\ worker' = [worker EXCEPT ![w].pc = "revoke"]
         \/ worker[w].op # "delete" /\ worker' = [worker EXCEPT ![w] = Idle]
  BY DEF Remove, Goto, Stop
<1>3. MachineType'
  BY <1>2, MachineKept
<1>4. RecordType' /\ RecordedOK' /\ RevokedOK'
  BY <1>1, <1>2 DEF RecordType, RecordedOK, RevokedOK, Issued
<1>5. \A v \in Workers : v # w => worker'[v] = worker[v]
  BY <1>2 DEF WorkersOK
<1>6. \/ worker[w].op # "delete" /\ worker'[w] = Idle
      \/ /\ worker'[w] \in Work /\ worker'[w].pc = "revoke" /\ worker'[w].op = "delete"
         /\ worker'[w].host = worker[w].host /\ worker'[w].serial = worker[w].serial
  BY <1>1, <1>2 DEF Work, WorkersOK
<1>7. worker' \in [Workers -> {Idle} \cup Work]
  BY <1>2, <1>5, <1>6 DEF WorkersOK
<1>8. worker'[w] # Idle => JobOK(worker[w])'
  BY <1>1, <1>2, <1>6 DEF JobOK, Issued
<1>9. \A v \in Workers : v # w /\ worker'[v] # Idle => JobOK(worker[v])'
  BY <1>2, <1>5 DEF WorkersOK, JobOK, Issued
<1>10. WorkersOK'
  BY <1>7, <1>8, <1>9 DEF WorkersOK
<1>11. ASSUME NEW g \in gone
       PROVE  \/ recorded'[g] \in revoked' \cup excused' \cup {0}
              \/ \E v \in Workers :
                    (At(v, "revoke") /\ worker[v].host = g /\ worker[v].serial = recorded[g])'
  <2>1. CASE recorded[g] \in revoked \cup excused \cup {0}
    BY <1>2, <2>1
  <2>2. ASSUME NEW v \in Workers, At(v, "revoke"), worker[v].host = g,
               worker[v].serial = recorded[g]
        PROVE  (At(v, "revoke") /\ worker[v].host = g /\ worker[v].serial = recorded[g])'
    <3>1. v # w
      BY <1>1, <2>2 DEF At
    <3> QED
      BY <1>2, <1>5, <2>2, <3>1 DEF At
  <2> QED
    BY <2>1, <2>2 DEF GoneOK
<1>12. ASSUME h \in listed
       PROVE  \/ recorded'[h] \in revoked' \cup excused' \cup {0}
              \/ /\ worker'[w].pc = "revoke" /\ worker'[w].host = h
                 /\ worker'[w].serial = recorded'[h]
  BY <1>1, <1>2, <1>6, <1>12 DEF JobOK
<1>13. GoneOK'
  <2> HIDE DEF h
  <2>1. ASSUME NEW g \in gone', g \notin gone PROVE g = h /\ h \in listed
    BY <1>1, <1>2, <2>1
  <2>2. ASSUME NEW g \in gone'
        PROVE  \/ recorded'[g] \in revoked' \cup excused' \cup {0}
               \/ \E v \in Workers :
                    (At(v, "revoke") /\ worker[v].host = g /\ worker[v].serial = recorded[g])'
    BY <1>11, <1>12, <2>1 DEF At
  <2> QED
    BY <2>2 DEF GoneOK
<1> QED
  BY <1>3, <1>4, <1>10, <1>13

LEMMA RestartStep ==
    ASSUME EnrollmentInv, Restart
    PROVE  EnrollmentInv'
<1> USE DEF EnrollmentInv
<1> DEFINE revoking == {w \in Workers : At(w, "revoke")}
<1>1. /\ UNCHANGED <<listed, gone, recorded, owner, asked, stage, installed, proc>>
      /\ conn' = 0 /\ inbox' = <<>> /\ worker' = [w \in Workers |-> Idle]
      /\ revoked' \in {revoked, {}}
      /\ excused' = excused \cup {worker[w].serial : w \in revoking} \cup (revoked \ revoked')
  BY DEF Restart, Restarted, recordVars
<1>2. MachineType'
  BY <1>1 DEF MachineType, Issued
<1>3. ASSUME NEW w \in revoking PROVE worker[w].serial \in Issued
  BY <1>3, Busy DEF At, JobOK
<1>4. RecordType' /\ RecordedOK' /\ RevokedOK'
  <2>1. {worker[w].serial : w \in revoking} \subseteq Issued /\ Issued' = Issued
    BY <1>1, <1>3 DEF Issued
  <2>2. revoked' \subseteq revoked /\ revoked \subseteq Issued
    BY <1>1 DEF RecordType, Issued
  <2>3. excused' \subseteq Issued
    BY <1>1, <2>1, <2>2 DEF RecordType
  <2> HIDE DEF revoking
  <2> QED
    BY <1>1, <2>1, <2>2, <2>3 DEF RecordType, RecordedOK, RevokedOK
<1>5. WorkersOK'
  BY <1>1 DEF WorkersOK
<1>6. GoneOK'
  BY <1>1 DEF GoneOK
<1> QED
  BY <1>2, <1>4, <1>5, <1>6

LEMMA EnrollmentNext ==
    ASSUME SerialsAssumption, EnrollmentInv, [Next]_vars
    PROVE  EnrollmentInv'
<1>1. CASE UNCHANGED vars
  <2>1. UNCHANGED certVars /\ UNCHANGED worker /\ MachineType'
    BY <1>1, MachineKept DEF vars, recordVars, historyVars, certVars, EnrollmentInv
  <2> QED
    BY <2>1, QuietStep
<1>2. CASE Next
  BY <1>2, RequestSteps, RotateStep, IssueStep, MachineSteps, AssociateSteps, RecordStep,
     RevokeStep, RemoveStep, RestartStep DEF Next
<1> QED
  BY <1>1, <1>2

LEMMA InvRevoked == EnrollmentInv => TypeOK /\ RevokedIsRemoved
<1> SUFFICES ASSUME EnrollmentInv PROVE TypeOK /\ RevokedIsRemoved
  OBVIOUS
<1>1. TypeOK
  BY DEF EnrollmentInv, MachineType, RecordType, WorkersOK, JobOK, Issued, TypeOK
<1>2. RevokedIsRemoved
  BY DEF EnrollmentInv, RevokedOK, GoneOK, RevokedIsRemoved
<1> QED
  BY <1>1, <1>2

\* However enrollments, rotations, removals, failures and restarts interleave, a certificate
\* is refused only if the removal of its host was asked for, and that of a host that was
\* removed is refused but for the excepted crashes and races.
THEOREM EnrollmentCorrect ==
    ASSUME SerialsAssumption
    PROVE  Spec => [](TypeOK /\ RevokedIsRemoved)
<1>1. EnrollmentInv => TypeOK /\ RevokedIsRemoved
  BY InvRevoked
<1>2. EnrollmentInv /\ [Next]_vars => EnrollmentInv'
  BY EnrollmentNext
<1>3. Init => EnrollmentInv
  BY EnrollmentInit
<1> QED
  BY <1>1, <1>2, <1>3, PTL DEF Spec
=============================================================================
