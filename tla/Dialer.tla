-------------------------------- MODULE Dialer --------------------------------
(***************************************************************************)
(* The dialer (manager/hub/dialer.go): one loop for each host the manager  *)
(* dials, reconciled with the registry after every change of it.           *)
(*                                                                         *)
(* A change of the registry is one step, and the Sync its notification     *)
(* calls comes later, concurrently with others.  Sync holds d.mu but not   *)
(* the registry's lock: it works on the copy it has read.  What a stream   *)
(* does while a loop serves it is in HubStreams.                           *)
(***************************************************************************)
EXTENDS Naturals, Sequences

CONSTANTS
    Hosts,
    Addrs,          \* addresses
    None,           \* not in the registry, not manager_dial, or no address
    Syncers,        \* goroutines that call Sync
    MaxLoops,       \* bound: loops started for a host
    MaxChanges      \* bound: changes of the registry

DialerAssumption == None \notin Addrs

VARIABLES
    address,        \* the registry: where each host is to be dialed, or None
    parent,         \* the context: not recorded yet, running, or cancelled
    sync,           \* each Sync: owed, holding d.mu with the copy it read, or none
    active,         \* d.active: which of its loops a host has, 0 for none
    loops,          \* the dial loops of each host, in the order they were started
    changes

vars == <<address, parent, sync, active, loops, changes>>

NoSync == [pc |-> "none"]
Owed == [pc |-> "owed"]
Locked == \E s \in Syncers : sync[s].pc = "holds"
Live(loop) == loop.live /\ parent # "cancelled"

Init ==
    /\ address \in [Hosts -> {None}] /\ parent = "none"
    /\ sync = [s \in Syncers |-> NoSync]
    /\ active = [h \in Hosts |-> 0] /\ loops = [h \in Hosts |-> <<>>] /\ changes = 0

(* Add, Edit or Remove, and the notification that is to follow. *)
Change(h, a, s) ==
    /\ changes < MaxChanges /\ changes' = changes + 1
    /\ address[h] # a /\ address' = [address EXCEPT ![h] = a]
    /\ sync[s] = NoSync /\ sync' = [sync EXCEPT ![s] = Owed]
    /\ UNCHANGED <<parent, active, loops>>

(* Start: the context is recorded, then the first Sync is owed. *)
Start(s) ==
    /\ parent = "none" /\ parent' = "running"
    /\ sync[s] = NoSync /\ sync' = [sync EXCEPT ![s] = Owed]
    /\ UNCHANGED <<address, active, loops, changes>>

(* Mutant of SyncRead: the hosts are read before d.mu is taken. *)
SyncReadEarly(s) ==
    /\ sync[s] = Owed
    /\ sync' = [sync EXCEPT ![s] = IF parent = "none" THEN NoSync
                                   ELSE [pc |-> "holds", want |-> address]]
    /\ UNCHANGED <<address, parent, active, loops, changes>>

(* Sync, first part: d.mu is taken and the hosts are read. *)
SyncRead(s) ==
    /\ sync[s] = Owed /\ ~Locked
    /\ sync' = [sync EXCEPT ![s] = IF parent = "none" THEN NoSync
                                   ELSE [pc |-> "holds", want |-> address]]
    /\ UNCHANGED <<address, parent, active, loops, changes>>

(* Sync, second part: loops that are not wanted, or not at that address,    *)
(* are cancelled, and missing ones started.                                 *)
SyncApply(s) ==
    LET want == sync[s].want
        stale == {h \in Hosts : active[h] # 0 /\ loops[h][active[h]].addr # want[h]}
        missing == {h \in Hosts : want[h] # None /\ (active[h] = 0 \/ h \in stale)}
        Cancelled(h) == IF h \in stale THEN [loops[h] EXCEPT ![active[h]].live = FALSE] ELSE loops[h]
        New(h) == [addr |-> want[h], live |-> TRUE, pc |-> "check"]
    IN  /\ sync[s].pc = "holds"
        /\ \A h \in missing : Len(loops[h]) < MaxLoops
        /\ active' = [h \in Hosts |-> IF h \in missing THEN Len(loops[h]) + 1
                                      ELSE IF h \in stale THEN 0 ELSE active[h]]
        /\ loops' = [h \in Hosts |-> IF h \in missing THEN Append(Cancelled(h), New(h))
                                     ELSE Cancelled(h)]
        /\ sync' = [sync EXCEPT ![s] = NoSync]
        /\ UNCHANGED <<address, parent, changes>>

(* The manager stops: the context ends, and stopAll follows. *)
Cancel ==
    /\ parent = "running" /\ parent' = "cancelled"
    /\ UNCHANGED <<address, sync, active, loops, changes>>

StopAll ==
    /\ parent = "cancelled" /\ ~Locked /\ active # [h \in Hosts |-> 0]
    /\ active' = [h \in Hosts |-> 0]
    /\ loops' = [h \in Hosts |-> [l \in 1..Len(loops[h]) |->
                    IF l = active[h] THEN [loops[h][l] EXCEPT !.live = FALSE] ELSE loops[h][l]]]
    /\ UNCHANGED <<address, parent, sync, changes>>
-----------------------------------------------------------------------------
(* A dial loop: the check of its context, the attempt and the stream that   *)
(* it opens, and the wait before the next.  A stream ends when the loop is  *)
(* cancelled, or by itself.                                                 *)

LoopGoes(h, l, from, to) ==
    /\ loops[h][l].pc = from
    /\ loops' = [loops EXCEPT ![h][l].pc = to]
    /\ UNCHANGED <<address, parent, sync, active, changes>>

LoopCheck(h, l) == LoopGoes(h, l, "check", IF Live(loops[h][l]) THEN "dial" ELSE "done")
LoopServe(h, l) == Live(loops[h][l]) /\ LoopGoes(h, l, "dial", "serve")
LoopFail(h, l) == LoopGoes(h, l, "dial", "wait")
LoopLose(h, l) == LoopGoes(h, l, "serve", "wait")
LoopWake(h, l) == LoopGoes(h, l, "wait", IF Live(loops[h][l]) THEN "check" ELSE "done")

Next ==
    \/ \E s \in Syncers :
        \/ \E h \in Hosts, a \in Addrs \cup {None} : Change(h, a, s)
        \/ Start(s) \/ SyncRead(s) \/ SyncApply(s)
    \/ Cancel \/ StopAll
    \/ \E h \in Hosts : \E l \in 1..Len(loops[h]) :
        LoopCheck(h, l) \/ LoopServe(h, l) \/ LoopFail(h, l) \/ LoopLose(h, l) \/ LoopWake(h, l)

Spec == Init /\ [][Next]_vars
-----------------------------------------------------------------------------
(* Properties. *)

Loops == [addr : Addrs, live : BOOLEAN, pc : {"check", "dial", "serve", "wait", "done"}]

TypeOK ==
    /\ address \in [Hosts -> Addrs \cup {None}]
    /\ parent \in {"none", "running", "cancelled"}
    /\ sync \in [Syncers -> {NoSync, Owed} \cup
                            [pc : {"holds"}, want : [Hosts -> Addrs \cup {None}]]]
    /\ active \in [Hosts -> Nat] /\ loops \in [Hosts -> Seq(Loops)]
    /\ \A h \in Hosts : active[h] \in 0..Len(loops[h])

(* However changes of a host and the Syncs they cause interleave, once no   *)
(* Sync is owed every host of the registry is dialed at the address it has  *)
(* there, the others are not dialed, and at no time has a host two loops    *)
(* that are not cancelled (dialer.go:93-108).                               *)
DialsTheListed ==
    /\ \A h \in Hosts : \A l \in 1..Len(loops[h]) : loops[h][l].live => active[h] = l
    /\ parent = "running" /\ (\A s \in Syncers : sync[s] = NoSync) =>
        \A h \in Hosts :
            IF address[h] = None THEN active[h] = 0
            ELSE /\ active[h] # 0
                 /\ LET loop == loops[h][active[h]]
                    IN  loop.addr = address[h] /\ loop.live /\ loop.pc # "done"
=============================================================================
