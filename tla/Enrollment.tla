------------------------------ MODULE Enrollment ------------------------------
(***************************************************************************)
(* The certificates of the hosts: enrollment, upgrade, revival and         *)
(* uninstall by the quartermaster (manager/quartermaster/), rotation       *)
(* (manager/app.go), deletion (manager/api/hosts_write.go), revocation     *)
(* (manager/ca/ca.go), and one machine on which the associate is put.      *)
(*                                                                         *)
(* Every enrollment makes a host record with a new id, so that a machine   *)
(* that is enrolled again has two.  Certificates are their serials,        *)
(* numbered in the order of issue; 0 is none.  A worker is the goroutine   *)
(* of a job, or of a request.  Hosts are installed over SSH; each upload   *)
(* goes through one staging directory on the machine, which the script     *)
(* that ends a job removes.  How a host is shown is in HubStreams.         *)
(***************************************************************************)
EXTENDS Naturals, Sequences, FiniteSets

CONSTANTS
    Hosts,          \* ids of host records
    Dialed,         \* those the manager dials (manager_dial)
    Workers,        \* goroutines
    Torn,           \* a bundle cut short by a crash or a full disk
    MaxSerials,     \* bound: certificates issued
    MaxBegun,       \* bound: jobs and requests
    MaxFailures     \* bound: restarts of the manager, and of the associate

SerialsAssumption == MaxSerials \in Nat

VARIABLES
    listed,         \* hosts of the registry, as state.json has them
    gone,           \* hosts that have been removed from it
    recorded,       \* the serial recorded for a host; the last one when it is gone
    owner,          \* the host each serial was issued to
    revoked,        \* serials the manager refuses
    worker,         \* what each goroutine is doing
    stage,          \* the staging directory: binary there? and the bundle's serial
    installed,      \* the serial in the installed bundle
    proc,           \* the serial the running associate presents
    conn,           \* the serial with which it is connected
    inbox,          \* rotations, and 0 for an uninstall, sent down the stream
    asked,          \* history: hosts whose removal was asked for
    excused,        \* history: serials whose revocation a crash or a race lost
    begun, failures

machineVars == <<stage, installed, proc, conn, inbox>>
recordVars == <<listed, gone, recorded, owner>>
historyVars == <<asked, excused, begun, failures>>
vars == <<recordVars, revoked, worker, machineVars, historyVars>>

Idle == [op |-> "none", pc |-> "idle"]
NoStage == [bin |-> FALSE, bundle |-> 0]
Boots(bundle) == IF bundle = Torn THEN 0 ELSE bundle
Connected(h) == conn # 0 /\ owner[conn] = h
Goto(w, pc) == worker' = [worker EXCEPT ![w].pc = pc]
Stop(w) == worker' = [worker EXCEPT ![w] = Idle]
At(w, pc) == worker[w].pc = pc

Init ==
    /\ listed = {} /\ gone = {} /\ recorded = [h \in Hosts |-> 0] /\ owner = <<>>
    /\ revoked = {} /\ worker = [w \in Workers |-> Idle]
    /\ stage = NoStage /\ installed = 0 /\ proc = 0 /\ conn = 0 /\ inbox = <<>>
    /\ asked = {} /\ excused = {} /\ begun = 0 /\ failures = 0
-----------------------------------------------------------------------------
(* The requests.  A job or a request keeps the copy of the host that it     *)
(* starts with.                                                             *)

Begin(w, op, h, pc, serial) ==
    /\ worker[w] = Idle /\ begun < MaxBegun /\ begun' = begun + 1
    /\ worker' = [worker EXCEPT ![w] = [op |-> op, host |-> h, pc |-> pc, serial |-> serial]]

Enroll(w, h) ==
    /\ h \notin listed \cup gone
    /\ Begin(w, "enroll", h, "issue", 0)
    /\ listed' = listed \cup {h}
    /\ UNCHANGED <<gone, recorded, owner, revoked, machineVars, asked, excused, failures>>

Upgrade(w, h) ==
    /\ h \in listed /\ Begin(w, "upgrade", h, "stage", 0)
    /\ UNCHANGED <<recordVars, revoked, machineVars, asked, excused, failures>>

Revive(w, h) ==
    /\ h \in listed /\ ~Connected(h) /\ Begin(w, "revive", h, "script", 0)
    /\ UNCHANGED <<recordVars, revoked, machineVars, asked, excused, failures>>

Uninstall(w, h) ==
    /\ h \in listed /\ Begin(w, "uninstall", h, "teardown", recorded[h])
    /\ asked' = asked \cup {h}
    /\ UNCHANGED <<recordVars, revoked, machineVars, excused, failures>>

(* A record is deleted without any teardown. *)
DeleteHost(w, h) ==
    /\ h \in listed /\ Begin(w, "delete", h, "remove", recorded[h])
    /\ asked' = asked \cup {h}
    /\ UNCHANGED <<recordVars, revoked, machineVars, excused, failures>>

(* IssueClient, IssueServer. *)
NewSerial == Len(owner) + 1
IssuedTo(h) == NewSerial <= MaxSerials /\ owner' = Append(owner, h)

(* A certificate of either kind; run records the serial at once, rotateCert   *)
(* when it has been sent.                                                   *)
Issue(w) ==
    LET h == worker[w].host IN
    /\ At(w, "issue") /\ IssuedTo(h)
    /\ recorded' = IF h \in listed THEN [recorded EXCEPT ![h] = NewSerial] ELSE recorded
    /\ worker' = [worker EXCEPT ![w].serial = NewSerial, ![w].pc = "stage"]
    /\ UNCHANGED <<listed, gone, revoked, machineVars, historyVars>>
-----------------------------------------------------------------------------
(* Work on the machine over SSH. *)

StageBinary(w) ==
    /\ At(w, "stage")
    /\ stage' = [stage EXCEPT !.bin = TRUE]
    /\ Goto(w, IF worker[w].op = "enroll" THEN "bundle" ELSE "script")
    /\ UNCHANGED <<recordVars, revoked, installed, proc, conn, inbox, historyVars>>

(* The bundle cannot be created once another job has removed the directory. *)
StageBundle(w) ==
    /\ At(w, "bundle") /\ stage.bin
    /\ stage' = [stage EXCEPT !.bundle = worker[w].serial]
    /\ Goto(w, "script")
    /\ UNCHANGED <<recordVars, revoked, installed, proc, conn, inbox, historyVars>>

(* The associate ends and with it its stream; the service starts another    *)
(* with the bundle, if that can be read.                                    *)
Restarted == conn' = 0 /\ inbox' = <<>>
Boot(bundle) == proc' = Boots(bundle) /\ Restarted

(* How the install script registers the service.  systemd's `enable --now`  *)
(* starts one that is not running and leaves one that is; openrc restarts   *)
(* it.                                                                      *)
SystemdRegister == IF proc = 0 THEN Boot(installed') ELSE UNCHANGED <<proc, conn, inbox>>
OpenrcRegister == Boot(installed')

(* installScript: it installs what is staged, whoever staged it.  It may    *)
(* fail after the copy.                                                     *)
CopyStaged == stage.bin /\ stage.bundle # 0 /\ installed' = stage.bundle

InstallScript(w) ==
    /\ At(w, "script") /\ worker[w].op = "enroll" /\ CopyStaged
    /\ \/ (SystemdRegister \/ OpenrcRegister) /\ stage' = NoStage
       \/ UNCHANGED <<proc, conn, inbox, stage>>
    /\ Stop(w)
    /\ UNCHANGED <<recordVars, revoked, historyVars>>

SwapBinaries == Boot(installed) /\ stage' = NoStage

UpgradeScript(w) ==
    /\ At(w, "script") /\ worker[w].op = "upgrade" /\ stage.bin /\ installed # 0
    /\ SwapBinaries /\ Stop(w)
    /\ UNCHANGED <<recordVars, revoked, installed, historyVars>>

(* A service that runs is left alone. *)
StartService == IF proc = 0 THEN Boot(installed) ELSE UNCHANGED <<proc, conn, inbox>>

ReviveScript(w) ==
    /\ At(w, "script") /\ worker[w].op = "revive" /\ installed # 0
    /\ StartService /\ Stop(w)
    /\ UNCHANGED <<recordVars, revoked, stage, installed, historyVars>>

(* The login is refused, a file is missing, the connection breaks. *)
GiveUp(w) ==
    /\ \E pc \in {"stage", "bundle", "script"} : At(w, pc)
    /\ Stop(w)
    /\ UNCHANGED <<recordVars, revoked, machineVars, historyVars>>

(* uninstallScript: it tears down whatever is installed on the machine.     *)
RemoveService == installed' = 0 /\ proc' = 0 /\ Restarted /\ UNCHANGED stage

(* runUninstall up to the revocation, which it reaches either way: over the *)
(* stream, or over SSH, or not at all.                                      *)
Teardown(w) ==
    /\ At(w, "teardown")
    /\ \/ Connected(worker[w].host) /\ inbox' = Append(inbox, 0)
          /\ UNCHANGED <<stage, installed, proc, conn>>
       \/ ~Connected(worker[w].host) /\ RemoveService
       \/ UNCHANGED machineVars
    /\ Goto(w, "revoke")
    /\ UNCHANGED <<recordVars, revoked, historyVars>>
-----------------------------------------------------------------------------
(* Revocation and removal. *)

RevokeCopy(w) ==
    /\ At(w, "revoke")
    /\ revoked' = revoked \cup ({worker[w].serial} \ {0})
    /\ IF worker[w].op = "uninstall" THEN Goto(w, "remove") ELSE Stop(w)
    /\ UNCHANGED <<recordVars, machineVars, historyVars>>

(* store.Remove.  A certificate rotated since the copy was taken is not the *)
(* one that is revoked.                                                     *)
Remove(w) ==
    LET h == worker[w].host IN
    /\ At(w, "remove")
    /\ listed' = listed \ {h} /\ gone' = gone \cup {h}
    /\ excused' = IF h \in listed /\ recorded[h] # worker[w].serial
                  THEN excused \cup {recorded[h]} ELSE excused
    /\ IF worker[w].op = "delete" THEN Goto(w, "revoke") ELSE Stop(w)
    /\ UNCHANGED <<recorded, owner, revoked, machineVars, asked, begun, failures>>
-----------------------------------------------------------------------------
(* Rotation. *)

Rotate(w, h) ==
    /\ h \in listed \ Dialed /\ Connected(h) /\ IssuedTo(h)
    /\ Begin(w, "rotate", h, "push", NewSerial)
    /\ UNCHANGED <<listed, gone, recorded, revoked, machineVars, asked, excused, failures>>

(* Mutant of Record: the certificate that is replaced is revoked. *)
RecordAndRevoke(w) ==
    LET h == worker[w].host IN
    /\ At(w, "record")
    /\ recorded' = IF h \in listed THEN [recorded EXCEPT ![h] = worker[w].serial] ELSE recorded
    /\ revoked' = revoked \cup ({recorded[h]} \ {0})
    /\ Stop(w)
    /\ UNCHANGED <<listed, gone, owner, machineVars, historyVars>>

(* hub.RotateCert: refused when the stream has gone or its buffer is full. *)
Push(w) ==
    /\ At(w, "push")
    /\ \/ /\ Connected(worker[w].host)
          /\ inbox' = Append(inbox, worker[w].serial) /\ Goto(w, "record")
       \/ Stop(w) /\ UNCHANGED inbox
    /\ UNCHANGED <<recordVars, revoked, stage, installed, proc, conn, historyVars>>

Record(w) ==
    LET h == worker[w].host IN
    /\ At(w, "record")
    /\ recorded' = IF h \in listed THEN [recorded EXCEPT ![h] = worker[w].serial] ELSE recorded
    /\ Stop(w)
    /\ UNCHANGED <<listed, gone, owner, revoked, machineVars, historyVars>>
-----------------------------------------------------------------------------
(* The associate. *)

(* The handshake: a host that dials home is refused with a revoked          *)
(* certificate; the manager that dials only checks the name.  Either way    *)
(* the host has to be listed.                                               *)
HomeAccepts(serial) == owner[serial] \notin Dialed /\ serial \notin revoked
DialAccepts(serial) == owner[serial] \in Dialed

Connect ==
    /\ conn = 0 /\ proc # 0
    /\ owner[proc] \in listed /\ (HomeAccepts(proc) \/ DialAccepts(proc))
    /\ conn' = proc /\ inbox' = <<>>
    /\ UNCHANGED <<recordVars, revoked, worker, stage, installed, proc, historyVars>>

Disconnect ==
    /\ conn # 0 /\ Restarted
    /\ UNCHANGED <<recordVars, revoked, worker, stage, installed, proc, historyVars>>

(* onRotateCert: the new certificate is in use whether it could be saved or *)
(* not; only when it could is the stream dropped.                           *)
Apply ==
    /\ inbox # <<>> /\ Head(inbox) # 0
    /\ proc' = Head(inbox)
    /\ \/ installed' = Head(inbox) /\ Restarted
       \/ installed' \in {installed, Torn} /\ inbox' = Tail(inbox) /\ UNCHANGED conn
    /\ UNCHANGED <<recordVars, revoked, worker, stage, historyVars>>

(* selfUninstall: the teardown runs detached; without sudo it does nothing  *)
(* and the associate only exits.                                            *)
TeardownScript == installed' \in {0, installed}

Leave ==
    /\ inbox # <<>> /\ Head(inbox) = 0
    /\ TeardownScript /\ proc' = 0 /\ Restarted
    /\ UNCHANGED <<recordVars, revoked, worker, stage, historyVars>>

(* The service starts the associate again with the bundle it finds. *)
Reboot ==
    /\ failures < MaxFailures /\ failures' = failures + 1
    /\ Boot(installed)
    /\ UNCHANGED <<recordVars, revoked, worker, stage, installed, asked, excused, begun>>

(* The manager stops and starts again.  state.json is replaced atomically;  *)
(* revoked.json is overwritten in place, and one that is cut short is read  *)
(* as an empty set.                                                         *)
Restart ==
    LET revoking == {w \in Workers : At(w, "revoke")} IN
    /\ failures < MaxFailures /\ failures' = failures + 1
    /\ worker' = [w \in Workers |-> Idle] /\ Restarted
    /\ \E torn \in IF revoking = {} THEN {FALSE} ELSE BOOLEAN :
        /\ revoked' = IF torn THEN {} ELSE revoked
        /\ excused' = excused \cup {worker[w].serial : w \in revoking} \cup (revoked \ revoked')
    /\ UNCHANGED <<recordVars, stage, installed, proc, asked, begun>>

Next ==
    \/ \E w \in Workers :
        \/ \E h \in Hosts :
            \/ Enroll(w, h) \/ Upgrade(w, h) \/ Revive(w, h) \/ Rotate(w, h)
            \/ Uninstall(w, h) \/ DeleteHost(w, h)
        \/ Issue(w) \/ StageBinary(w) \/ StageBundle(w) \/ GiveUp(w)
        \/ InstallScript(w) \/ UpgradeScript(w) \/ ReviveScript(w)
        \/ Teardown(w) \/ RevokeCopy(w) \/ Remove(w) \/ Push(w) \/ Record(w)
    \/ Connect \/ Disconnect \/ Apply \/ Leave \/ Reboot \/ Restart

Spec == Init /\ [][Next]_vars
-----------------------------------------------------------------------------
(* Properties. *)

Serials == 1..MaxSerials

TypeOK ==
    /\ listed \subseteq Hosts /\ gone \subseteq Hosts \ listed /\ asked \subseteq Hosts
    /\ gone \subseteq asked
    /\ owner \in Seq(Hosts) /\ Len(owner) <= MaxSerials
    /\ recorded \in [Hosts -> 0..Len(owner)]
    /\ revoked \subseteq 1..Len(owner) /\ excused \subseteq 0..Len(owner)
    /\ proc \in 0..Len(owner) /\ conn \in 0..Len(owner) /\ installed \in 0..Len(owner) \cup {Torn}
    /\ stage \in [bin : BOOLEAN, bundle : 0..Len(owner)]
    /\ inbox \in Seq(0..Len(owner))
    /\ \A w \in Workers : worker[w] # Idle => worker[w].serial \in 0..Len(owner)

(* Rotations, enrollments of the same machine under another id, failed jobs *)
(* and restarts never get the certificate of a host refused that nobody     *)
(* asked to remove; and a host that was removed is refused with the         *)
(* certificate recorded for it, except where a restart cut the removal      *)
(* short or a rotation overtook it (quartermaster.go:333, hosts_write.go:   *)
(* 199, app.go:426).                                                        *)
RevokedIsRemoved ==
    /\ \A s \in revoked : owner[s] \in asked
    /\ \A h \in gone :
        \/ recorded[h] \in revoked \cup excused \cup {0}
        \/ \E w \in Workers : At(w, "revoke") /\ worker[w].host = h
=============================================================================
